---- MODULE Spec2Model ----
(***************************************************************************)
(* A model of parrot: the bencode codec (src/bencode), the tracker         *)
(* announce handler (src/tracker), the peer handshake handler (src/peer)   *)
(* and the channel that joins the two listeners to the consumer in main.   *)
(*                                                                         *)
(* Bytes are naturals 0..255, byte strings are sequences of bytes.         *)
(* 64-bit integers are four 16-bit limbs, least significant first, so the  *)
(* checked and the wrapping arithmetic of the decoder keep their width.    *)
(***************************************************************************)
EXTENDS Integers, Sequences, FiniteSets, TLC

----------------------------------------------------------------------------
(* Bytes and byte strings                                                  *)

\* The printable ASCII characters, code 32 (space) to 126 (~), in order (the
\* double quote, the backslash and the backtick by name).
Printable ==
    <<" ","!","dquote","#","$","%","&","'","(",")","*","+",",","-",".","/",
      "0","1","2","3","4","5","6","7","8","9",":",";","<","=",">","?",
      "@","A","B","C","D","E","F","G","H","I","J","K","L","M","N","O",
      "P","Q","R","S","T","U","V","W","X","Y","Z","[","backslash","]","^","_",
      "backtick","a","b","c","d","e","f","g","h","i","j","k","l","m","n","o",
      "p","q","r","s","t","u","v","w","x","y","z","{","|","}","~">>

\* The byte of a printable character: b'c' in the source.
Ord(c) ==
    31 + (CHOOSE i \in 1..Len(Printable) : Printable[i] = c)

\* The bytes of a string literal, given as the sequence of its characters.
Str(cs) ==
    [i \in 1..Len(cs) |-> Ord(cs[i])]

\* The bytes the codec and the handlers name.
b_0 == Ord("0")

b_9 == Ord("9")

b_colon == Ord(":")

b_minus == Ord("-")

b_e == Ord("e")

b_i == Ord("i")

b_l == Ord("l")

b_d == Ord("d")

\* Further bytes the query-string parser and the handlers name.
Chr ==
    [plus |-> Ord("+"), amp |-> Ord("&"), eq |-> Ord("="), pct |-> Ord("%"),
     sp |-> Ord(" "), a |-> Ord("a"), z |-> Ord("z"), A |-> Ord("A"),
     Z |-> Ord("Z"), dot |-> Ord("."), cr |-> 13, lf |-> 10]

RECURSIVE Concat(_)
\* The concatenation of a sequence of byte strings.
Concat(ss) ==
    IF ss = <<>> THEN <<>> ELSE Head(ss) \o Concat(Tail(ss))

\* n copies of byte b: [b; n] in the source.
Repeat(b, n) ==
    [i \in 1..n |-> b]

\* to_dec_digit: Some(byte - b'0') for b'0'..=b'9', None otherwise.
IsDecDigit(byte) ==
    byte >= b_0 /\ byte <= b_9

to_dec_digit(byte) ==
    byte - b_0

RECURSIVE NatToDec(_)
\* usize/u16 to_string(): the decimal digits of n, most significant first.
NatToDec(n) ==
    IF n < 10 THEN <<b_0 + n>>
    ELSE Append(NatToDec(n \div 10), b_0 + (n % 10))

RECURSIVE BytesLess(_, _)
\* Ord for Vec<u8>: lexicographic, a proper prefix sorts first.
BytesLess(a, b) ==
    IF b = <<>> THEN FALSE
    ELSE IF a = <<>> THEN TRUE
    ELSE IF Head(a) # Head(b) THEN Head(a) < Head(b)
    ELSE BytesLess(Tail(a), Tail(b))

----------------------------------------------------------------------------
(* 64-bit integers: u64 as four limbs base 2^16; i64 as sign and magnitude *)

LimbBase == 2^16

U64Zero == <<0, 0, 0, 0>>

\* u64::MAX = 2^64 - 1
U64Max == <<LimbBase - 1, LimbBase - 1, LimbBase - 1, LimbBase - 1>>

\* 2^63, the magnitude of i64::MIN; i64::MAX is one less.
Two63 == <<0, 0, 0, 2^15>>

I64MaxMag == <<LimbBase - 1, LimbBase - 1, LimbBase - 1, 2^15 - 1>>

\* A small natural (below 2^31) as a u64.
U64(n) ==
    <<n % LimbBase, n \div LimbBase, 0, 0>>

\* x <= y on u64.
U64Leq(x, y) ==
    \/ x[4] < y[4]
    \/ x[4] = y[4] /\ x[3] < y[3]
    \/ x[4] = y[4] /\ x[3] = y[3] /\ x[2] < y[2]
    \/ x[4] = y[4] /\ x[3] = y[3] /\ x[2] = y[2] /\ x[1] <= y[1]

\* x * 10 + d over 64 bits: the low 64 bits and the carry out of bit 63.
MulAdd(x, m, d) ==
    LET p1 == x[1] * m + d
        p2 == x[2] * m + (p1 \div LimbBase)
        p3 == x[3] * m + (p2 \div LimbBase)
        p4 == x[4] * m + (p3 \div LimbBase)
    IN  [v |-> <<p1 % LimbBase, p2 % LimbBase, p3 % LimbBase, p4 % LimbBase>>,
         carry |-> p4 \div LimbBase]

\* u64::checked_mul: None (here <<>>) on overflow.
U64CheckedMul(x, m) ==
    LET r == MulAdd(x, m, 0) IN IF r.carry > 0 THEN <<>> ELSE r.v

\* Mutant of U64CheckedAdd: the sum wraps instead of failing.
U64WrappingAdd(x, d) ==
    MulAdd(x, 1, d).v

\* u64::checked_add of a small value d.
U64CheckedAdd(x, d) ==
    LET r == MulAdd(x, 1, d) IN IF r.carry > 0 THEN <<>> ELSE r.v

\* len * 10 + i in u64 without a check: the low 64 bits, and whether the
\* mathematical result left the range (a panic with overflow checks on).
U64MulAddUnchecked(x, m, d) ==
    LET r == MulAdd(x, m, d) IN [v |-> r.v, overflow |-> r.carry > 0]

\* The quotient and the remainder of a u64 by 10.
U64DivMod10(x) ==
    LET c4 == x[4]
        c3 == (c4 % 10) * LimbBase + x[3]
        c2 == (c3 % 10) * LimbBase + x[2]
        c1 == (c2 % 10) * LimbBase + x[1]
    IN  [q |-> <<c1 \div 10, c2 \div 10, c3 \div 10, c4 \div 10>>, r |-> c1 % 10]

RECURSIVE U64ToDec(_)
\* format!("{}", u) for u64: decimal digits, no leading zero.
U64ToDec(x) ==
    LET dm == U64DivMod10(x)
    IN  IF dm.q = U64Zero THEN <<b_0 + dm.r>>
        ELSE Append(U64ToDec(dm.q), b_0 + dm.r)

\* An i64 is [neg, mag]: the value is -mag when neg, mag otherwise; zero is
\* never neg; mag <= 2^63 when neg and <= 2^63 - 1 otherwise.
I64(neg, mag) ==
    [neg |-> neg /\ mag # U64Zero, mag |-> mag]

I64InRange(neg, mag) ==
    IF neg /\ mag # U64Zero THEN U64Leq(mag, Two63) ELSE U64Leq(mag, I64MaxMag)

\* i64::checked_mul by a small positive m: None (<<>>) when out of range.
I64CheckedMul(i, m) ==
    LET r == MulAdd(i.mag, m, 0)
    IN  IF r.carry > 0 \/ ~I64InRange(i.neg, r.v) THEN <<>> ELSE I64(i.neg, r.v)

\* i64::checked_sub of a digit d from an i that is zero or negative (the only
\* use, decode.rs:81): the magnitude grows by d.
I64CheckedSubDigit(i, d) ==
    LET r == MulAdd(i.mag, 1, d)
    IN  IF r.carry > 0 \/ ~I64InRange(d > 0 \/ i.neg, r.v) THEN <<>>
        ELSE I64(d > 0 \/ i.neg, r.v)

\* Mutant of I64ToDec: the sign is not written.
I64ToDecNoSign(i) ==
    U64ToDec(i.mag)

\* i64 to decimal, were a value that is not negative written with a '+'.
I64ToDecPlus(i) ==
    IF i.neg THEN <<b_minus>> \o U64ToDec(i.mag) ELSE <<Ord("+")>> \o U64ToDec(i.mag)

\* format!("{}", i) for i64.
I64ToDec(i) ==
    IF i.neg THEN <<b_minus>> \o U64ToDec(i.mag) ELSE U64ToDec(i.mag)

\* i64::try_from(u64): Ok exactly when the value is at most i64::MAX.
I64TryFromU64(u) ==
    IF U64Leq(u, I64MaxMag) THEN I64(FALSE, u) ELSE <<>>

----------------------------------------------------------------------------
(* bencode::Data and bencode::Dictionary                                   *)

UInt(u) == [t |-> "UInt", u |-> u]

\* Data::Int (Int itself names the integers in TLA+).
SInt(i) == [t |-> "Int", i |-> i]

Bytes(b) == [t |-> "Bytes", b |-> b]

List(l) == [t |-> "List", l |-> l]

\* A Dictionary is the sequence of its <<key, value>> entries in ascending
\* key order: the iteration order of the BTreeMap it wraps.
Dict(d) == [t |-> "Dict", d |-> d]

End == [t |-> "End"]

\* Dictionary::new
DictNew == <<>>

DictKeys(d) ==
    {d[i][1] : i \in 1..Len(d)}

\* BTreeMap::get
DictGet(d, k) ==
    LET hit == {i \in 1..Len(d) : d[i][1] = k}
    IN  IF hit = {} THEN <<>> ELSE <<d[CHOOSE i \in hit : TRUE][2]>>

\* Mutant of DictInsert: entries stay in the order of their insertion.
DictInsertUnordered(d, k, v) ==
    SelectSeq(d, LAMBDA e : e[1] # k) \o <<(<<k, v>>)>>

\* Dictionary::insert: the entry takes its place in key order; an entry with
\* the same key is replaced.
DictInsert(d, k, v) ==
    LET before == SelectSeq(d, LAMBDA e : BytesLess(e[1], k))
        after  == SelectSeq(d, LAMBDA e : BytesLess(k, e[1]))
    IN  before \o <<(<<k, v>>)>> \o after

RECURSIVE DataEq(_, _)
\* impl PartialEq for Data
DataEq(a, b) ==
    CASE a.t = "Int" /\ b.t = "Int" -> a.i = b.i
      [] a.t = "Int" /\ b.t = "UInt" ->
            LET i == I64TryFromU64(b.u) IN i # <<>> /\ i = a.i
      [] a.t = "UInt" /\ b.t = "Int" ->
            LET i == I64TryFromU64(a.u) IN i # <<>> /\ i = b.i
      [] a.t = "UInt" /\ b.t = "UInt" -> a.u = b.u
      [] a.t = "Bytes" /\ b.t = "Bytes" -> a.b = b.b
      [] a.t = "List" /\ b.t = "List" ->
            /\ Len(a.l) = Len(b.l)
            /\ \A n \in 1..Len(a.l) : DataEq(a.l[n], b.l[n])
      [] a.t = "Dict" /\ b.t = "Dict" ->
            /\ Len(a.d) = Len(b.d)
            /\ \A n \in 1..Len(a.d) :
                  a.d[n][1] = b.d[n][1] /\ DataEq(a.d[n][2], b.d[n][2])
      [] OTHER -> a.t = b.t

RECURSIVE HasEnd(_)
\* Whether the End sentinel occurs in a value, at any depth.
HasEnd(v) ==
    CASE v.t = "End" -> TRUE
      [] v.t = "List" -> \E n \in 1..Len(v.l) : HasEnd(v.l[n])
      [] v.t = "Dict" -> \E n \in 1..Len(v.d) : HasEnd(v.d[n][2])
      [] OTHER -> FALSE

----------------------------------------------------------------------------
(* bencode::encode                                                         *)

RECURSIVE encode(_)
\* encode panics on Data::End (encode.rs:32); it is applied to End-free
\* values only.
encode(item) ==
    CASE item.t = "Bytes" -> NatToDec(Len(item.b)) \o <<b_colon>> \o item.b
      [] item.t = "UInt" -> <<b_i>> \o U64ToDec(item.u) \o <<b_e>>
      [] item.t = "Int" -> <<b_i>> \o I64ToDec(item.i) \o <<b_e>>
      [] item.t = "List" ->
            <<b_l>> \o Concat([n \in 1..Len(item.l) |-> encode(item.l[n])])
                \o <<b_e>>
      [] item.t = "Dict" ->
            <<b_d>>
                \o Concat([n \in 1..Len(item.d) |->
                        encode(Bytes(item.d[n][1])) \o encode(item.d[n][2])])
                \o <<b_e>>

----------------------------------------------------------------------------
(* bencode::decode                                                         *)

\* A decode result: Ok(value) with the bytes the iterator still holds,
\* Err(DataParseError(msg)), or a panic of the arithmetic.
Ok(v, rest) == [kind |-> "ok", val |-> v, rest |-> rest]

Err(msg) == [kind |-> "err", msg |-> msg]

Panic(msg) == [kind |-> "panic", msg |-> msg]

\* The value of a u64 that is at most n (a small natural), else n + 1:
\* enough to count `for _ in 0..len` against the bytes that are left.
U64Min(x, n) ==
    IF x[4] = 0 /\ x[3] = 0 /\ x[2] = 0 /\ x[1] <= n THEN x[1] ELSE n + 1

RECURSIVE DecodeLen(_, _, _)
\* decode.rs:21-29: the length prefix. The loop ends at ':' or when the
\* iterator is exhausted; len * 10 + i is unchecked u64 arithmetic, which
\* panics when the build checks overflow and wraps otherwise.
DecodeLen(len, bytes, checks) ==
    IF bytes = <<>> THEN [kind |-> "len", len |-> len, rest |-> <<>>]
    ELSE IF Head(bytes) = b_colon
        THEN [kind |-> "len", len |-> len, rest |-> Tail(bytes)]
    ELSE IF IsDecDigit(Head(bytes))
        THEN LET r == U64MulAddUnchecked(len, 10, to_dec_digit(Head(bytes)))
             IN  IF r.overflow /\ checks
                 THEN Panic("attempt to multiply with overflow")
                 ELSE DecodeLen(r.v, Tail(bytes), checks)
    ELSE Err("Unexpected non-number.")

\* decode.rs:19-38: a byte string.
DecodeBytes(start, bytes, checks) ==
    LET l == DecodeLen(U64(to_dec_digit(start)), bytes, checks)
    IN  IF l.kind # "len" THEN l
        ELSE LET n == U64Min(l.len, Len(l.rest))
             IN  IF n > Len(l.rest) THEN Err("Unexpected end of data.")
                 ELSE Ok(Bytes(SubSeq(l.rest, 1, n)),
                         SubSeq(l.rest, n + 1, Len(l.rest)))

RECURSIVE DecodeUnsigned(_, _)
\* decode.rs:47-62: the digits of a non-negative integer after the first.
DecodeUnsigned(u, bytes) ==
    IF bytes = <<>> THEN Err("Unexpected non-digit character.")
    ELSE IF Head(bytes) = b_e THEN Ok(UInt(u), Tail(bytes))
    ELSE IF IsDecDigit(Head(bytes))
        THEN LET m == U64CheckedMul(u, 10)
                 a == IF m = <<>> THEN <<>>
                      ELSE U64CheckedAdd(m, to_dec_digit(Head(bytes)))
             IN  IF a = <<>> THEN Err("Integer overflow (unsigned 64-bit)")
                 ELSE DecodeUnsigned(a, Tail(bytes))
    ELSE Err("Unexpected non-digit character.")

RECURSIVE DecodeSigned(_, _)
\* decode.rs:73-89: the digits of a negative integer after the first.
DecodeSigned(i, bytes) ==
    IF bytes = <<>> THEN Err("Unexpected non-digit character.")
    ELSE IF Head(bytes) = b_e THEN Ok(SInt(i), Tail(bytes))
    ELSE IF IsDecDigit(Head(bytes))
        THEN LET m == I64CheckedMul(i, 10)
                 a == IF m = <<>> THEN <<>>
                      ELSE I64CheckedSubDigit(m, to_dec_digit(Head(bytes)))
             IN  IF a = <<>> THEN Err("Integer overflow (signed 64-bit).")
                 ELSE DecodeSigned(a, Tail(bytes))
    ELSE Err("Unexpected non-digit character.")

\* decode.rs:67-70: the first digit after '-': -((byte - b'0') as i64).
NegDigit(byte) ==
    I64(TRUE, U64(to_dec_digit(byte)))

\* decode.rs:42-93: an integer, after the leading 'i'.
DecodeInteger(bytes) ==
    IF bytes = <<>> THEN Err("Unexpected non-digit character")
    ELSE IF IsDecDigit(Head(bytes))
        THEN DecodeUnsigned(U64(to_dec_digit(Head(bytes))), Tail(bytes))
    ELSE IF Head(bytes) = b_minus
        THEN IF Tail(bytes) # <<>> /\ IsDecDigit(Head(Tail(bytes)))
             THEN DecodeSigned(NegDigit(Head(Tail(bytes))), Tail(Tail(bytes)))
             ELSE Err("Unexpected non-digit character.")
    ELSE Err("Unexpected non-digit character")

\* Mutant of DuplicateKey: a repeated key is not noticed (last write wins).
DuplicateKeyIgnored(map, key) ==
    FALSE

\* decode.rs:123-125: map.insert(key, value) returned Some(_).
DuplicateKey(map, key) ==
    DictGet(map, key) # <<>>

RECURSIVE decode(_, _)
RECURSIVE DecodeList(_, _, _)
RECURSIVE DecodeDict(_, _, _)

\* decode.rs:94-105: the elements of a list, up to the End sentinel.
DecodeList(vec, bytes, checks) ==
    LET it == decode(bytes, checks)
    IN  IF it.kind # "ok" THEN it
        ELSE IF it.val.t = "End" THEN Ok(List(vec), it.rest)
        ELSE DecodeList(Append(vec, it.val), it.rest, checks)

\* decode.rs:106-129: the entries of a dictionary, up to the End sentinel.
DecodeDict(map, bytes, checks) ==
    LET key == decode(bytes, checks)
    IN  IF key.kind # "ok" THEN key
        ELSE IF key.val.t = "End" THEN Ok(Dict(map), key.rest)
        ELSE IF key.val.t # "Bytes" THEN Err("Unexpected non-key type.")
        ELSE LET entry == decode(key.rest, checks)
             IN  IF entry.kind # "ok" THEN entry
                 ELSE IF entry.val.t = "End"
                     THEN Err("Unexpected end of dictionary.")
                 ELSE IF DuplicateKey(map, key.val.b)
                     THEN Err("Duplicate key in dictionary.")
                 ELSE DecodeDict(DictInsert(map, key.val.b, entry.val),
                                 entry.rest, checks)

\* decode.rs:13-132. checks: whether the build checks integer overflow.
decode(bytes, checks) ==
    IF bytes = <<>> THEN Err("Empty string.")
    ELSE LET start == Head(bytes)
         IN  IF IsDecDigit(start) THEN DecodeBytes(start, Tail(bytes), checks)
             ELSE IF start = b_e THEN Ok(End, Tail(bytes))
             ELSE IF start = b_i THEN DecodeInteger(Tail(bytes))
             ELSE IF start = b_l THEN DecodeList(<<>>, Tail(bytes), checks)
             ELSE IF start = b_d
                 THEN DecodeDict(DictNew, Tail(bytes), checks)
             ELSE Err("Unexpected data type.")

\* decode_vec: the bytes left in the iterator are dropped with it.
decode_vec(bytes, checks) ==
    LET r == decode(bytes, checks)
    IN  IF r.kind = "ok" THEN [kind |-> "ok", val |-> r.val] ELSE r

----------------------------------------------------------------------------
(* The codec at work: a value is built and encoded, or bytes are written  *)
(* directly; then decode_vec is applied to the bytes.                     *)

VARIABLES
    config,         \* the Config the process was started with
    process_id,     \* process::id()
    debug_build,    \* whether the build checks integer overflow
    server_thread,  \* Server::listen: "start", "listening", "blocked" or "dead"
    peer_thread,    \* Peer::listen: "unspawned", "start", "listening", "blocked", "dead"
    chan,           \* the mpsc channel: the addresses sent and not yet received
    served,         \* the number of connections accepted so far
    last,           \* the connection handled last: what came in and what was done
    sent,           \* every address sent on the channel so far, with its sender
    main_thread,    \* main: "running" its loop over the receiver, or "exited"
    received,       \* the addresses the loop of main has taken, in order
    launches,       \* every call of config.notify.run so far: the ip, and Ok or Err
    notifiers       \* the notifier processes launched and not yet exited

mainVars == <<main_thread, received, launches, notifiers>>

netVars ==
    <<config, process_id, debug_build, server_thread, peer_thread, chan, served, last,
      sent, mainVars>>

VARIABLES
    origin,     \* how the bytes came about (what was built, step by step)
    value,      \* the Data handed to encode
    data,       \* the bytes handed to decode_vec
    result,     \* what decode_vec returned
    stage       \* "build", "encoded" (bytes ready), "decoded"

codecVars == <<origin, value, data, result, stage>>

VARIABLES
    query_string,       \* the QueryString handed to TrackerRequest::try_from
    edits,              \* how many times it was changed since it was built
    tracker_request,    \* what try_from returned, once it has
    round_trip          \* <<>>, or the one record of an encode and the decode of it

requestVars == <<query_string, edits, tracker_request, round_trip>>

VARIABLES
    meta_value,     \* the value converted: which entity it is, and the value
    meta_data,      \* the Data it became, as handed to try_from
    meta_edits,     \* how many times the dictionary was changed in between
    meta_result,    \* what try_from returned: <<>> for Err(()), <<v>> for Ok(v)
    meta_stage      \* "value", "data" (converted), "done" (reconstructed)

metaVars == <<meta_value, meta_data, meta_edits, meta_result, meta_stage>>

\* Bounds of the codec model.
MaxNodes == 4

MaxInserts == 3

MaxRaw == 4

MaxExtra == 2

MaxPairs == 3

NoData == [t |-> "None"]

NoResult == [kind |-> "none"]

\* i64::MIN, i64::MAX and u64::MAX are among the leaves.
Leaves ==
    { UInt(U64Zero), UInt(U64(7)), UInt(U64Max), UInt(Two63),
      SInt(I64(FALSE, U64(5))), SInt(I64(TRUE, U64(1))),
      SInt(I64(TRUE, Two63)), SInt(I64(FALSE, I64MaxMag)),
      Bytes(<<>>), Bytes(Str(<<"e">>)),
      Bytes(Str(<<"0","1","2","3","4","5","6","7","8","9",":">>)) }

\* The keys of the dictionaries that are built: a key and a proper prefix
\* of it among them.
Keys ==
    { Str(<<"s","p","a","m">>), Str(<<"c","o","w">>), Str(<<"c","o">>) }

\* The values pushed to a list or put in a dictionary once it exists.
Elems ==
    { SInt(I64(FALSE, U64(5))), Bytes(Str(<<"e">>)) }

\* The bytes written directly.
Alphabet ==
    { b_0, Ord("1"), b_colon, b_minus, b_e, b_i, b_l }

\* The digit strings integers are written from: empty, and the digits of
\* u64::MAX and of 2^63 without their last digit.
IntBases ==
    { <<>>,
      Str(<<"1","8","4","4","6","7","4","4","0","7","3","7","0","9","5","5","1","6","1">>),
      Str(<<"9","2","2","3","3","7","2","0","3","6","8","5","4","7","7","5","8","0">>) }

Digits == { b_0 + d : d \in 0..9 }

IntForms == {"plain", "neg", "dash"}

Wraps == {"none", "list", "dict"}

RECURSIVE Size(_)
RECURSIVE SizeSum(_)
\* The number of values in a value: itself and all it contains.
Size(v) ==
    CASE v.t = "List" -> 1 + SizeSum(v.l)
      [] v.t = "Dict" -> 1 + SizeSum([n \in 1..Len(v.d) |-> v.d[n][2]])
      [] OTHER -> 1

SizeSum(vs) ==
    IF vs = <<>> THEN 0 ELSE Size(Head(vs)) + SizeSum(Tail(vs))

CodecInit ==
    /\ origin = [kind |-> "none"]
    /\ value = NoData
    /\ data = <<>>
    /\ result = NoResult
    /\ stage = "build"

Building(kind) ==
    stage = "build" /\ origin.kind = kind

\* origin of a value: the inserts made into it while it is a dictionary that
\* began empty (puts), in the order made.
ValueOrigin(puts, inserted) ==
    [kind |-> "value", puts |-> puts, inserted |-> inserted]

\* A scalar or byte-string value.
NewLeaf ==
    /\ Building("none")
    /\ \E l \in Leaves : value' = l
    /\ origin' = ValueOrigin(FALSE, <<>>)
    /\ UNCHANGED <<data, result, stage, netVars, requestVars, metaVars>>

\* Data::List(vec![])
NewList ==
    /\ Building("none")
    /\ value' = List(<<>>)
    /\ origin' = ValueOrigin(FALSE, <<>>)
    /\ UNCHANGED <<data, result, stage, netVars, requestVars, metaVars>>

\* Data::Dict(Dictionary::new())
NewDict ==
    /\ Building("none")
    /\ value' = Dict(DictNew)
    /\ origin' = ValueOrigin(TRUE, <<>>)
    /\ UNCHANGED <<data, result, stage, netVars, requestVars, metaVars>>

\* vec.push(l)
ListPush ==
    /\ Building("value")
    /\ value.t = "List"
    /\ Size(value) < MaxNodes
    /\ \E l \in Elems : value' = List(Append(value.l, l))
    /\ UNCHANGED <<origin, data, result, stage, netVars, requestVars, metaVars>>

\* dict.insert(k, v) on a dictionary that began empty; origin.inserted keeps
\* the inserts in the order made.
DictPut ==
    /\ Building("value")
    /\ origin.puts
    /\ Len(origin.inserted) < MaxInserts
    /\ \E k \in Keys, v \in Elems :
          /\ value' = Dict(DictInsert(value.d, k, v))
          /\ origin' = [origin EXCEPT !.inserted = Append(@, <<k, v>>)]
    /\ UNCHANGED <<data, result, stage, netVars, requestVars, metaVars>>

\* The value becomes the one element of a list.
WrapList ==
    /\ Building("value")
    /\ Size(value) < MaxNodes
    /\ value' = List(<<value>>)
    /\ origin' = ValueOrigin(FALSE, <<>>)
    /\ UNCHANGED <<data, result, stage, netVars, requestVars, metaVars>>

\* The value becomes the one entry of a dictionary.
WrapDict ==
    /\ Building("value")
    /\ Size(value) < MaxNodes
    /\ \E k \in Keys : value' = Dict(DictInsert(DictNew, k, value))
    /\ origin' = ValueOrigin(FALSE, <<>>)
    /\ UNCHANGED <<data, result, stage, netVars, requestVars, metaVars>>

\* data = encode(value)
Encode ==
    /\ Building("value")
    /\ ~HasEnd(value)
    /\ data' = encode(value)
    /\ stage' = "encoded"
    /\ UNCHANGED <<origin, value, result, netVars, requestVars, metaVars>>

\* One more byte of an input written by hand.
RawByte ==
    /\ stage = "build"
    /\ origin.kind \in {"none", "raw"}
    /\ Len(data) < MaxRaw
    /\ \E b \in Alphabet : data' = Append(data, b)
    /\ origin' = [kind |-> "raw"]
    /\ UNCHANGED <<value, result, stage, netVars, requestVars, metaVars>>

\* The digits of an integer: a base, then up to MaxExtra further digits.
IntStart ==
    /\ Building("none")
    /\ \E base \in IntBases :
          origin' = [kind |-> "int", digits |-> base, extra |-> 0,
                     form |-> "none"]
    /\ UNCHANGED <<value, data, result, stage, netVars, requestVars, metaVars>>

IntDigit ==
    /\ Building("int")
    /\ origin.extra < MaxExtra
    /\ \E d \in Digits :
          origin' = [origin EXCEPT !.digits = Append(@, d), !.extra = @ + 1]
    /\ UNCHANGED <<value, data, result, stage, netVars, requestVars, metaVars>>

\* The integer as it is written: i<digits>e, i-<digits>e, or with the '-'
\* after the first digit.
IntText(digits, form) ==
    CASE form = "plain" -> <<b_i>> \o digits \o <<b_e>>
      [] form = "neg" -> <<b_i, b_minus>> \o digits \o <<b_e>>
      [] form = "dash" ->
            <<b_i, Head(digits), b_minus>> \o Tail(digits) \o <<b_e>>

IntWrite ==
    /\ Building("int")
    /\ \E form \in IntForms :
          /\ form = "dash" => origin.digits # <<>>
          /\ data' = IntText(origin.digits, form)
          /\ origin' = [origin EXCEPT !.form = form]
    /\ stage' = "encoded"
    /\ UNCHANGED <<value, result, netVars, requestVars, metaVars>>

\* The digits written as the length prefix of a byte string: <digits>:, with
\* nothing or one byte after it.
LenWrite ==
    /\ Building("int")
    /\ origin.digits # <<>>
    /\ \E payload \in {<<>>, <<b_e>>} :
          data' = origin.digits \o <<b_colon>> \o payload
    /\ origin' = [kind |-> "len", digits |-> origin.digits]
    /\ stage' = "encoded"
    /\ UNCHANGED <<value, result, netVars, requestVars, metaVars>>

\* A dictionary written entry by entry, repeated keys included, without a
\* Dictionary in between.
RawDict(pairs) ==
    <<b_d>>
        \o Concat([n \in 1..Len(pairs) |->
                encode(Bytes(pairs[n][1])) \o encode(pairs[n][2])])
        \o <<b_e>>

\* The written dictionary on its own, as the element of a list, or as the
\* value of the one entry of an outer dictionary.
Wrapped(text, wrap) ==
    CASE wrap = "none" -> text
      [] wrap = "list" -> <<b_l>> \o text \o <<b_e>>
      [] wrap = "dict" ->
            <<b_d>> \o encode(Bytes(Str(<<"k">>))) \o text \o <<b_e>>

\* The entries a dictionary is written from.
PairSeqs ==
    UNION {[1..n -> Keys \X Elems] : n \in 0..MaxPairs}

DictWrite ==
    /\ Building("none")
    /\ \E pairs \in PairSeqs, wrap \in Wraps :
          /\ origin' = [kind |-> "dict", pairs |-> pairs, wrap |-> wrap]
          /\ data' = Wrapped(RawDict(pairs), wrap)
    /\ stage' = "encoded"
    /\ UNCHANGED <<value, result, netVars, requestVars, metaVars>>

\* decode_vec(data), in a build that checks integer overflow or in one that
\* does not.
Decode ==
    /\ \/ stage = "encoded"
       \/ stage = "build" /\ origin.kind \in {"none", "raw"}
    /\ \E checks \in BOOLEAN : result' = decode_vec(data, checks)
    /\ origin' = IF origin.kind = "none" THEN [kind |-> "raw"] ELSE origin
    /\ stage' = "decoded"
    /\ UNCHANGED <<value, data, netVars, requestVars, metaVars>>

CodecNext ==
    \/ NewLeaf
    \/ NewList
    \/ NewDict
    \/ ListPush
    \/ DictPut
    \/ WrapList
    \/ WrapDict
    \/ Encode
    \/ RawByte
    \/ IntStart
    \/ IntDigit
    \/ IntWrite
    \/ LenWrite
    \/ DictWrite
    \/ Decode


----------------------------------------------------------------------------
(* Claims about the codec, checked under SpecCodec                         *)

\* a sorts strictly before b, byte by byte; a proper prefix sorts first.
LexBefore(a, b) ==
    \E n \in 0..Len(a) :
        /\ n <= Len(b)
        /\ \A m \in 1..n : a[m] = b[m]
        /\ \/ n = Len(a) /\ n < Len(b)
           \/ n < Len(a) /\ n < Len(b) /\ a[n + 1] < b[n + 1]

RECURSIVE Ascending(_)
\* The byte strings of a set, in strictly ascending order.
Ascending(S) ==
    IF S = {} THEN <<>>
    ELSE LET first == CHOOSE k \in S : \A j \in S \ {k} : LexBefore(k, j)
         IN  <<first>> \o Ascending(S \ {first})

\* The value the last insert of key k left, among the inserts made.
LastInserted(inserted, k) ==
    LET at == {n \in 1..Len(inserted) : inserted[n][1] = k}
    IN  inserted[CHOOSE n \in at : \A m \in at : m <= n][2]

\* What encode must emit for the dictionary the inserts made: each key once,
\* in ascending order, with the value last inserted for it.
CanonicalDict(inserted) ==
    LET keys == Ascending({inserted[n][1] : n \in 1..Len(inserted)})
    IN  <<b_d>>
            \o Concat([n \in 1..Len(keys) |->
                    encode(Bytes(keys[n]))
                        \o encode(LastInserted(inserted, keys[n]))])
            \o <<b_e>>

\* Some key occurs twice among the written entries.
HasDuplicateKey(pairs) ==
    \E m, n \in 1..Len(pairs) : m < n /\ pairs[m][1] = pairs[n][1]

RECURSIVE StripZeros(_)
\* A digit string without its leading zeros (one digit is kept).
StripZeros(ds) ==
    IF Len(ds) > 1 /\ Head(ds) = b_0 THEN StripZeros(Tail(ds)) ELSE ds

\* a <= b for decimal digit strings without leading zeros.
DecLeq(a, b) ==
    \/ Len(a) < Len(b)
    \/ Len(a) = Len(b) /\ (a = b \/ LexBefore(a, b))

\* 2^64 - 1 and 2^63 in decimal.
U64MaxDec ==
    Str(<<"1","8","4","4","6","7","4","4","0","7","3","7","0","9","5","5","1","6","1","5">>)

Two63Dec ==
    Str(<<"9","2","2","3","3","7","2","0","3","6","8","5","4","7","7","5","8","0","8">>)

RECURSIVE DecValue(_)
\* The number a short digit string denotes.
DecValue(ds) ==
    IF ds = <<>> THEN 0
    ELSE 10 * DecValue(SubSeq(ds, 1, Len(ds) - 1)) + (ds[Len(ds)] - b_0)

\* How many decimal digits a byte string begins with.
LeadingDigits(bs) ==
    CHOOSE n \in 0..Len(bs) :
        /\ \A m \in 1..n : IsDecDigit(bs[m])
        /\ n < Len(bs) => ~IsDecDigit(bs[n + 1])

RECURSIVE SignedAllNegative(_)
\* Every Data::Int in a value holds a strictly negative integer.
SignedAllNegative(v) ==
    CASE v.t = "Int" -> v.i.neg
      [] v.t = "List" -> \A n \in 1..Len(v.l) : SignedAllNegative(v.l[n])
      [] v.t = "Dict" -> \A n \in 1..Len(v.d) : SignedAllNegative(v.d[n][2])
      [] OTHER -> TRUE

Decoded(kind) ==
    stage = "decoded" /\ origin.kind = kind

\* C1: round trip. Decoding the bytes encode produced for an End-free value
\* succeeds and returns a value equal to it under Data's equality.
C1_RoundTrip ==
    Decoded("value") => result.kind = "ok" /\ DataEq(result.val, value)

\* C1 witness: a list holding a non-negative Data::Int went through encode
\* and decode, and came back as a Data::UInt that is equal to it.
C1_Witness ==
    /\ Decoded("value")
    /\ value.t = "List"
    /\ Len(value.l) >= 1
    /\ value.l[1].t = "Int"
    /\ result.kind = "ok"
    /\ result.val.l[1].t = "UInt"

\* C2: a successful result of decode_vec holds no End at any depth, and an
\* input that begins with 'e' is an error.
C2_NoEndExposed ==
    stage = "decoded" =>
        /\ result.kind = "ok" => ~HasEnd(result.val)
        /\ (data # <<>> /\ Head(data) = b_e) => result.kind = "err"

\* C3: every Data::Int in a successfully decoded value is strictly negative
\* (an integer that is not negative is decoded as Data::UInt).
C3_SignedOnlyNegative ==
    (stage = "decoded" /\ result.kind = "ok") => SignedAllNegative(result.val)

\* C4: for a dictionary built by inserts in any order, encode emits each key
\* once, in strictly ascending byte order, with the value last inserted: the
\* output is fixed by the content, not by the order of the inserts.
C4_CanonicalOrder ==
    (origin.kind = "value" /\ origin.puts /\ stage # "build") =>
        data = CanonicalDict(origin.inserted)

\* C4 witness: spam was inserted before cow, then spam again, and the
\* dictionary was encoded.
C4_Witness ==
    /\ origin.kind = "value"
    /\ origin.puts
    /\ stage = "encoded"
    /\ Len(origin.inserted) = 3
    /\ origin.inserted[1][1] = Str(<<"s","p","a","m">>)
    /\ origin.inserted[2][1] = Str(<<"c","o","w">>)
    /\ origin.inserted[3][1] = Str(<<"s","p","a","m">>)
    /\ origin.inserted[1][2] # origin.inserted[3][2]

\* C5: decoding a dictionary in which a key occurs a second time fails with
\* the duplicate-key parse error, at any nesting depth.
C5_DuplicateKeyRejected ==
    (Decoded("dict") /\ HasDuplicateKey(origin.pairs)) =>
        result = Err("Duplicate key in dictionary.")

\* C5 witness: a dictionary nested in a list repeated a key with another
\* value, and decode_vec returned an error.
C5_Witness ==
    /\ Decoded("dict")
    /\ origin.wrap = "list"
    /\ Len(origin.pairs) = 2
    /\ origin.pairs[1][1] = origin.pairs[2][1]
    /\ origin.pairs[1][2] # origin.pairs[2][2]
    /\ result.kind = "err"

C7_ByteStringGrammar ==
    (Decoded("raw") /\ data # <<>> /\ IsDecDigit(Head(data))) =>
        LET p == LeadingDigits(data)
            declared == DecValue(SubSeq(data, 1, p))
        IN  IF p < Len(data) /\ data[p + 1] = b_colon
                /\ declared <= Len(data) - (p + 1)
            THEN /\ result.kind = "ok"
                 /\ result.val.t = "Bytes"
                 /\ result.val.b = SubSeq(data, p + 2, p + 1 + declared)
            ELSE result.kind = "err"

----------------------------------------------------------------------------
(* Strings: String::from_utf8, str::split, split_once, strip_prefix, parse *)

\* String::from_utf8 succeeds: the bytes are well-formed UTF-8.  A run of
\* ASCII bytes is passed over in one step, then one multi-byte sequence.
RECURSIVE IsUtf8(_)
IsUtf8(bs) ==
    IF \A i \in 1..Len(bs) : bs[i] < 128 THEN TRUE
    ELSE
        LET n == Len(bs)
            high == {i \in 1..n : bs[i] >= 128}
            p == CHOOSE i \in high : \A j \in high : i <= j
            In(i, lo, hi) == i <= n /\ lo <= bs[i] /\ bs[i] <= hi
            Cont(i) == In(i, 128, 191)
            width ==
                IF In(p, 194, 223) /\ Cont(p + 1) THEN 2
                ELSE IF In(p, 224, 224) /\ In(p + 1, 160, 191) /\ Cont(p + 2) THEN 3
                ELSE IF In(p, 225, 236) /\ Cont(p + 1) /\ Cont(p + 2) THEN 3
                ELSE IF In(p, 237, 237) /\ In(p + 1, 128, 159) /\ Cont(p + 2) THEN 3
                ELSE IF In(p, 238, 239) /\ Cont(p + 1) /\ Cont(p + 2) THEN 3
                ELSE IF In(p, 240, 240) /\ In(p + 1, 144, 191) /\ Cont(p + 2) /\ Cont(p + 3) THEN 4
                ELSE IF In(p, 241, 243) /\ Cont(p + 1) /\ Cont(p + 2) /\ Cont(p + 3) THEN 4
                ELSE IF In(p, 244, 244) /\ In(p + 1, 128, 143) /\ Cont(p + 2) /\ Cont(p + 3) THEN 4
                ELSE 0
        IN  width > 0 /\ IsUtf8(SubSeq(bs, p + width, n))

\* The index of the first byte b in bs, 0 when there is none.
IndexOf(bs, b) ==
    LET at == {i \in 1..Len(bs) : bs[i] = b}
    IN  IF at = {} THEN 0 ELSE CHOOSE i \in at : \A j \in at : i <= j

\* str::split_once: Some((before, after)) as <<before, after>>, None as <<>>.
SplitOnce(bs, sep) ==
    LET i == IndexOf(bs, sep)
    IN  IF i = 0 THEN <<>>
        ELSE <<SubSeq(bs, 1, i - 1), SubSeq(bs, i + 1, Len(bs))>>

\* str::split: the pieces between separators; one piece for an empty string.
RECURSIVE Split(_, _)
Split(bs, sep) ==
    LET i == IndexOf(bs, sep)
    IN  IF i = 0 THEN <<bs>>
        ELSE <<SubSeq(bs, 1, i - 1)>> \o Split(SubSeq(bs, i + 1, Len(bs)), sep)

\* str::strip_prefix: Some(rest) as <<rest>>, None as <<>>.
StripPrefix(bs, prefix) ==
    IF Len(bs) >= Len(prefix) /\ SubSeq(bs, 1, Len(prefix)) = prefix
    THEN <<SubSeq(bs, Len(prefix) + 1, Len(bs))>>
    ELSE <<>>

\* str::parse::<u16>() after String::from_utf8: an optional '+', then one or
\* more decimal digits whose value fits; Some(n) as <<n>>, Err as <<>>.
RECURSIVE ParseU16Digits(_, _)
ParseU16Digits(acc, bs) ==
    IF bs = <<>> THEN <<acc>>
    ELSE IF ~IsDecDigit(Head(bs)) THEN <<>>
    ELSE IF acc * 10 + to_dec_digit(Head(bs)) >= 2^16 THEN <<>>
    ELSE ParseU16Digits(acc * 10 + to_dec_digit(Head(bs)), Tail(bs))

ParseU16(bs) ==
    LET digits == IF bs # <<>> /\ Head(bs) = Chr.plus THEN Tail(bs) ELSE bs
    IN  IF ~IsUtf8(bs) \/ digits = <<>> THEN <<>> ELSE ParseU16Digits(0, digits)

\* str::parse::<u64>() after String::from_utf8, on the 64-bit limbs.
RECURSIVE ParseU64Digits(_, _)
ParseU64Digits(acc, bs) ==
    IF bs = <<>> THEN <<acc>>
    ELSE IF ~IsDecDigit(Head(bs)) THEN <<>>
    ELSE
        LET m == U64CheckedMul(acc, 10)
            s == IF m = <<>> THEN <<>> ELSE U64CheckedAdd(m, to_dec_digit(Head(bs)))
        IN  IF s = <<>> THEN <<>> ELSE ParseU64Digits(s, Tail(bs))

ParseU64(bs) ==
    LET digits == IF bs # <<>> /\ Head(bs) = Chr.plus THEN Tail(bs) ELSE bs
    IN  IF ~IsUtf8(bs) \/ digits = <<>> THEN <<>> ELSE ParseU64Digits(U64Zero, digits)

----------------------------------------------------------------------------
(* tracker::query_string and tracker::TrackerRequest                       *)

\* to_hex_digit on bytes.next(): Some(v) as <<v>>, None as <<>>.  Every
\* letter is taken, so v ranges over 0..35.
to_hex_digit(bs, i) ==
    IF i > Len(bs) THEN <<>>
    ELSE IF IsDecDigit(bs[i]) THEN <<bs[i] - b_0>>
    ELSE IF bs[i] >= Chr.a /\ bs[i] <= Chr.z THEN <<bs[i] - Chr.a + 10>>
    ELSE IF bs[i] >= Chr.A /\ bs[i] <= Chr.Z THEN <<bs[i] - Chr.A + 10>>
    ELSE <<>>

\* url_decode, vec being what was pushed so far: the bytes before the next
\* '%' are pushed as they are, then the escape is decoded.  a * 16 + b is u8
\* arithmetic: past 255 it panics with overflow checks and wraps without.
RECURSIVE UrlDecodeFrom(_, _, _)
UrlDecodeFrom(s, vec, checks) ==
    LET i == IndexOf(s, Chr.pct)
        a == to_hex_digit(s, i + 1)
        b == to_hex_digit(s, i + 2)
    IN  IF i = 0 THEN [kind |-> "ok", v |-> vec \o s]
        ELSE IF a = <<>> \/ b = <<>> THEN [kind |-> "err"]
        ELSE IF a[1] * 16 + b[1] >= 2^8 /\ checks THEN [kind |-> "panic"]
        ELSE UrlDecodeFrom(SubSeq(s, i + 3, Len(s)),
                           vec \o SubSeq(s, 1, i - 1) \o <<(a[1] * 16 + b[1]) % 2^8>>,
                           checks)

url_decode(s, checks) ==
    UrlDecodeFrom(s, <<>>, checks)

\* What format!("{:X}", byte) writes: the hexadecimal digits of the byte in
\* upper case, as many as its value takes.
HexUpper(byte) ==
    LET digit(n) == IF n < 10 THEN b_0 + n ELSE Chr.A + (n - 10)
    IN  IF byte < 16 THEN <<digit(byte)>> ELSE <<digit(byte \div 16), digit(byte % 16)>>

\* The bytes url_encode pushes as they are.
Unreserved(byte) ==
    \/ IsDecDigit(byte)
    \/ byte >= Chr.a /\ byte <= Chr.z
    \/ byte >= Chr.A /\ byte <= Chr.Z
    \/ byte \in {Ord("_"), Ord("-"), Ord("."), Ord("~")}

\* url_encode
RECURSIVE url_encode(_)
url_encode(s) ==
    IF s = <<>> THEN <<>>
    ELSE (IF Unreserved(Head(s)) THEN <<Head(s)>> ELSE <<Chr.pct>> \o HexUpper(Head(s)))
         \o url_encode(Tail(s))

\* The loop of query_string::encode, the pairs coming out of the HashMap in
\* the given order of the keys.
RECURSIVE QsEncodePairs(_, _)
QsEncodePairs(map, order) ==
    IF order = <<>> THEN <<>>
    ELSE url_encode(Head(order)) \o <<Chr.eq>> \o url_encode(map[Head(order)]) \o <<Chr.amp>>
         \o QsEncodePairs(map, Tail(order))

\* Vec::pop, as far as what is left of the vector.
Popped(vec) ==
    IF vec = <<>> THEN <<>> ELSE SubSeq(vec, 1, Len(vec) - 1)

\* query_string::encode
qs_encode(map, order) ==
    Popped(QsEncodePairs(map, order))

\* The orders in which a HashMap may hand out the keys in keys.
Orders(keys) ==
    {order \in [1..Cardinality(keys) -> keys] :
        \A i, j \in 1..Cardinality(keys) : order[i] = order[j] => i = j}

\* HashMap::insert on a QueryString, a function from keys to values.
QsInsert(map, k, v) ==
    [x \in DOMAIN map \cup {k} |-> IF x = k THEN v ELSE map[x]]

\* Mutant of QsRemove: a key that is missing reads as "0".
QsRemoveOrZero(map, key) ==
    IF key \in DOMAIN map THEN <<map[key]>> ELSE <<(<<b_0>>)>>

\* QueryString::remove, as far as the value it returns: Some(v) as <<v>>.
QsRemove(map, key) ==
    IF key \in DOMAIN map THEN <<map[key]>> ELSE <<>>

\* The loop of query_string::decode over the items that split('&') yields.
RECURSIVE QsDecodeItems(_, _, _)
QsDecodeItems(items, map, checks) ==
    IF items = <<>> THEN [kind |-> "ok", v |-> map]
    ELSE
        LET kv == SplitOnce(Head(items), Chr.eq)
            key == url_decode(kv[1], checks)
            val == url_decode(kv[2], checks)
        IN  IF kv = <<>> THEN [kind |-> "err"]
            ELSE IF key.kind # "ok" THEN key
            ELSE IF val.kind # "ok" THEN val
            ELSE QsDecodeItems(Tail(items), QsInsert(map, key.v, val.v), checks)

\* query_string::decode
qs_decode(text, checks) ==
    QsDecodeItems(Split(text, Chr.amp), <<>>, checks)

\* The keys TrackerRequest::try_from removes from the query string.
Key ==
    [info_hash |-> Str(<<"i","n","f","o","_","h","a","s","h">>), peer_id |-> Str(<<"p","e","e","r","_","i","d">>), port |-> Str(<<"p","o","r","t">>),
     uploaded |-> Str(<<"u","p","l","o","a","d","e","d">>), downloaded |-> Str(<<"d","o","w","n","l","o","a","d","e","d">>), left |-> Str(<<"l","e","f","t">>),
     compact |-> Str(<<"c","o","m","p","a","c","t">>), no_peer_id |-> Str(<<"n","o","_","p","e","e","r","_","i","d">>), event |-> Str(<<"e","v","e","n","t">>),
     ip |-> Str(<<"i","p">>), numwant |-> Str(<<"n","u","m","w","a","n","t">>), trackerid |-> Str(<<"t","r","a","c","k","e","r","i","d">>)]

\* TrackerEvent::try_from(Vec<u8>).ok(): None (<<>>) when not UTF-8.
TrackerEventFrom(bs) ==
    IF ~IsUtf8(bs) THEN <<>>
    ELSE IF bs = Str(<<"s","t","a","r","t","e","d">>) THEN <<"STARTED">>
    ELSE IF bs = Str(<<"s","t","o","p","p","e","d">>) THEN <<"STOPPED">>
    ELSE IF bs = Str(<<"c","o","m","p","l","e","t","e","d">>) THEN <<"COMPLETED">>
    ELSE <<"REGULAR">>

\* TrackerRequest::try_from(QueryString): Ok(request) as <<request>>, Err(())
\* as <<>>.  Options are <<>> or <<v>>.
TrackerRequestFrom(qs) ==
    LET info_hash == QsRemove(qs, Key.info_hash)
        peer_id == QsRemove(qs, Key.peer_id)
        port == QsRemove(qs, Key.port)
        uploaded == QsRemove(qs, Key.uploaded)
        downloaded == QsRemove(qs, Key.downloaded)
        left == QsRemove(qs, Key.left)
        no_peer_id == QsRemove(qs, Key.no_peer_id)
        event == QsRemove(qs, Key.event)
        numwant == QsRemove(qs, Key.numwant)
    IN  IF info_hash = <<>> \/ Len(info_hash[1]) # 20 THEN <<>>
        ELSE IF peer_id = <<>> \/ Len(peer_id[1]) # 20 THEN <<>>
        ELSE IF port = <<>> \/ ParseU16(port[1]) = <<>> THEN <<>>
        ELSE IF uploaded = <<>> \/ ParseU64(uploaded[1]) = <<>> THEN <<>>
        ELSE IF downloaded = <<>> \/ ParseU64(downloaded[1]) = <<>> THEN <<>>
        ELSE IF left = <<>> \/ ParseU64(left[1]) = <<>> THEN <<>>
        ELSE IF numwant # <<>> /\ ParseU64(numwant[1]) = <<>> THEN <<>>
        ELSE <<[info_hash |-> info_hash[1],
                peer_id |-> peer_id[1],
                port |-> ParseU16(port[1])[1],
                uploaded |-> ParseU64(uploaded[1])[1],
                downloaded |-> ParseU64(downloaded[1])[1],
                left |-> ParseU64(left[1])[1],
                compact |-> <<FALSE>>,
                no_peer_id |-> IF no_peer_id = <<>> THEN <<>>
                               ELSE <<no_peer_id[1] # <<b_0>>>>,
                event |-> IF event = <<>> THEN <<>> ELSE TrackerEventFrom(event[1]),
                ip |-> QsRemove(qs, Key.ip),
                numwant |-> IF numwant = <<>> THEN <<>> ELSE ParseU64(numwant[1]),
                trackerid |-> QsRemove(qs, Key.trackerid)]>>

----------------------------------------------------------------------------
(* Addresses, tracker::TrackerResponse and peer::Handshake                 *)

\* An IpAddr: v = 4 with its four octets, or v = 6 with its displayed text.
IpV4(a, b, c, d) ==
    [v |-> 4, repr |-> <<a, b, c, d>>]

\* Display (and Debug) of an IpAddr: dotted decimal for IPv4.
IpDisplay(ip) ==
    IF ip.v = 4
    THEN NatToDec(ip.repr[1]) \o <<Chr.dot>> \o NatToDec(ip.repr[2]) \o <<Chr.dot>>
            \o NatToDec(ip.repr[3]) \o <<Chr.dot>> \o NatToDec(ip.repr[4])
    ELSE ip.repr

\* A SocketAddr.
SocketAddr(ip, port) ==
    [ip |-> ip, port |-> port]

\* The text the handlers and the response dictionaries are built from.
Txt ==
    [get |-> Str(<<"G","E","T"," ","/","a","n","n","o","u","n","c","e","?">>),
     ok |-> Str(<<"H","T","T","P","/","1",".","1"," ","2","0","0"," ","O","K">>),
     content_length |-> Str(<<"C","o","n","t","e","n","t","-","L","e","n","g","t","h",":"," ">>),
     content_type |-> Str(<<"C","o","n","t","e","n","t","-","T","y","p","e",":"," ","t","e","x","t","/","p","l","a","i","n">>),
     bad_request |-> Str(<<"H","T","T","P","/","1",".","1"," ","4","0","0"," ","B","A","D"," ","R","E","Q","U","E","S","T">>),
     server_error |-> Str(<<"H","T","T","P","/","1",".","1"," ","5","0","0"," ","I","N","T","E","R","N","A","L"," ","S","E","R","V","E","R"," ","E","R","R","O","R">>),
     crlf |-> <<Chr.cr, Chr.lf>>,
     invalid |-> Str(<<"I","n","v","a","l","i","d"," ","i","n","f","o"," ","h","a","s","h",".">>),
     your_ip |-> Str(<<"Y","o","u","r"," ","I","P"," ","i","s"," ">>),
     failure_reason |-> Str(<<"f","a","i","l","u","r","e"," ","r","e","a","s","o","n">>),
     interval |-> Str(<<"i","n","t","e","r","v","a","l">>), complete |-> Str(<<"c","o","m","p","l","e","t","e">>), incomplete |-> Str(<<"i","n","c","o","m","p","l","e","t","e">>),
     peers |-> Str(<<"p","e","e","r","s">>), warning_message |-> Str(<<"w","a","r","n","i","n","g"," ","m","e","s","s","a","g","e">>),
     peer_id |-> Str(<<"p","e","e","r"," ","i","d">>), ip |-> Str(<<"i","p">>), port |-> Str(<<"p","o","r","t">>),
     bittorrent |-> Str(<<"B","i","t","T","o","r","r","e","n","t"," ","p","r","o","t","o","c","o","l">>),
     pa |-> Str(<<"-","P","A">>)]

\* peer::PEER_VERSION
PEER_VERSION == <<0, 0, 1, 0>>

\* peer_id, were the process id written once and the rest left zero.
PeerIdFillOnce(vec, digits) ==
    SubSeq(vec \o digits \o Repeat(0, 20), 1, 20)

\* peer::peer_id(): "-PA", the version, then the decimal process id repeated
\* until 20 bytes are there; the first 20 bytes.
RECURSIVE PeerIdFill(_, _)
PeerIdFill(vec, digits) ==
    IF Len(vec) < 20 THEN PeerIdFill(vec \o digits, digits) ELSE SubSeq(vec, 1, 20)

peer_id(pid) ==
    PeerIdFill(Txt.pa \o PEER_VERSION, NatToDec(pid))

\* Mutant of HandshakeBytes: the length byte of the protocol string is left out.
HandshakeBytesNoLength(h) ==
    Txt.bittorrent \o h.reserved \o h.info_hash \o h.peer_id

\* Into<Vec<u8>> for Handshake, the protocol being Protocol::BITTORRENT.
HandshakeBytes(h) ==
    <<Len(Txt.bittorrent)>> \o Txt.bittorrent \o h.reserved \o h.info_hash \o h.peer_id

\* Debug of the IP handed to tracker::Peer: the address as the tracker's test
\* expects it, or the host name (the IP enum is not among the sources).
IpDebug(ip) ==
    IF ip.kind = "IP" THEN IpDisplay(ip.ip) ELSE ip.host

\* Into<Dictionary> for tracker::Peer
PeerDict(peer) ==
    LET d1 == DictInsert(DictNew, Txt.peer_id, Bytes(peer.peer_id))
        d2 == DictInsert(d1, Txt.ip, Bytes(IpDebug(peer.ip)))
    IN  DictInsert(d2, Txt.port, UInt(U64(peer.port)))

\* Peers::create_compact for one address: 4 octets, the port big-endian.
create_compact(v4, port) ==
    [kind |-> "Compact", entries |-> <<v4.repr \o <<port \div 2^8, port % 2^8>>>>]

\* Into<Data> for Peers
PeersData(peers) ==
    IF peers.kind = "Compact" THEN Bytes(Concat(peers.entries))
    ELSE List([i \in 1..Len(peers.peers) |-> Dict(PeerDict(peers.peers[i]))])

\* Mutant of ResponseDict: no warning message is attached.
ResponseDictNoWarning(resp) ==
    IF resp.kind = "Err"
    THEN DictInsert(DictNew, Txt.failure_reason, Bytes(resp.reason))
    ELSE
        LET d1 == DictInsert(DictNew, Txt.interval, UInt(U64(resp.interval)))
            d2 == DictInsert(d1, Txt.complete, UInt(U64(resp.complete)))
            d3 == DictInsert(d2, Txt.incomplete, UInt(U64(resp.incomplete)))
        IN  DictInsert(d3, Txt.peers, PeersData(resp.peers))

\* Into<Dictionary> for TrackerResponse; min_interval and tracker_id are None
\* in every response the server builds, so insert_some leaves them out.
ResponseDict(resp) ==
    IF resp.kind = "Err"
    THEN DictInsert(DictNew, Txt.failure_reason, Bytes(resp.reason))
    ELSE
        LET d1 == DictInsert(DictNew, Txt.interval, UInt(U64(resp.interval)))
            d2 == DictInsert(d1, Txt.complete, UInt(U64(resp.complete)))
            d3 == DictInsert(d2, Txt.incomplete, UInt(U64(resp.incomplete)))
            d4 == DictInsert(d3, Txt.peers, PeersData(resp.peers))
        IN  IF resp.warning_message = <<>> THEN d4
            ELSE DictInsert(d4, Txt.warning_message, Bytes(resp.warning_message[1]))

----------------------------------------------------------------------------
(* The two connection handlers                                              *)

\* The size of the buffer the tracker reads the request into.
BUF_SIZE == 1024

\* The read loop of Server::handle_connection.  reads is what each call of
\* stream.read returns, in order; past its end read returns Ok(0) or an Err.
RECURSIVE ReadLoop(_)
ReadLoop(reads) ==
    IF reads = <<>> THEN <<>>
    ELSE IF Len(Head(reads)) = BUF_SIZE THEN Head(reads) \o ReadLoop(Tail(reads))
    ELSE Head(reads)

\* The response of a handled announce: status line, headers, body, CRLF.
Http200(body) ==
    Txt.ok \o Txt.crlf \o Txt.content_length \o NatToDec(Len(body)) \o Txt.crlf
        \o Txt.content_type \o Txt.crlf \o Txt.crlf \o body \o Txt.crlf

\* Mutant of Announce: the remote address is published whatever the info hash.
AnnounceAlwaysPublishes(cfg, pid, local, remote, req) ==
    [sends |-> <<remote>>,
     body |-> encode(Dict(ResponseDict([kind |-> "Err", reason |-> Txt.invalid])))]

\* Server::handle_connection once the request is parsed: what is sent on the
\* channel and the bencoded body.
Announce(cfg, pid, local, remote, req) ==
    IF cfg.info_hash = req.info_hash
    THEN
        LET ip == CASE cfg.peer_host.kind = "HOST" -> [kind |-> "STRING", host |-> cfg.host]
                    [] cfg.peer_host.kind = "IP" -> [kind |-> "IP", ip |-> cfg.peer_host.ip]
                    [] cfg.peer_host.kind = "INFER" -> [kind |-> "IP", ip |-> local.ip]
            peers == IF req.compact = <<TRUE>> /\ ip.kind = "IP" /\ ip.ip.v = 4
                     THEN create_compact(ip.ip, cfg.peer_port)
                     ELSE [kind |-> "Full",
                           peers |-> <<[peer_id |-> peer_id(pid), ip |-> ip,
                                        port |-> cfg.peer_port]>>]
        IN  [sends |-> <<remote>>,
             body |-> encode(Dict(ResponseDict(
                         [kind |-> "Ok", interval |-> 300, complete |-> 1,
                          incomplete |-> 0, peers |-> peers,
                          warning_message |-> <<Txt.your_ip \o IpDisplay(remote.ip)>>])))]
    ELSE [sends |-> <<>>,
          body |-> encode(Dict(ResponseDict([kind |-> "Err", reason |-> Txt.invalid])))]

\* Server::handle_connection: ret is "true", "false" (Ok(false)), "err" (the
\* write failed) or "panic"; request is the TrackerRequest the handler built,
\* if it got that far; sends is what went onto the channel, writes the
\* buffers handed to write_all.
ServerHandle(cfg, pid, local, remote, reads, wfail, checks) ==
    LET refused == [ret |-> "false", request |-> <<>>, sends |-> <<>>, writes |-> <<>>]
        WithBody(req, a) ==
            [ret |-> IF wfail THEN "err" ELSE "true",
             request |-> req,
             sends |-> a.sends,
             writes |-> <<Http200(a.body)>>]
        WithRequest(req) ==
            IF req = <<>> THEN refused
            ELSE WithBody(req, Announce(cfg, pid, local, remote, req[1]))
        WithQs(qs) ==
            IF qs.kind = "panic" THEN [refused EXCEPT !.ret = "panic"]
            ELSE IF qs.kind = "err" THEN refused
            ELSE WithRequest(TrackerRequestFrom(qs.v))
        WithQuery(query) ==
            IF query = <<>> THEN refused ELSE WithQs(qs_decode(query[1], checks))
        WithPath(path) ==
            IF path = <<>> THEN refused ELSE WithQuery(SplitOnce(path[1], Chr.sp))
        WithText(text) ==
            IF ~IsUtf8(text) THEN refused ELSE WithPath(StripPrefix(text, Txt.get))
    IN  WithText(ReadLoop(reads))

\* read_exact! on n bytes: the buffer starts as zeros and takes the bytes that
\* are there; a short read is not acted on.
ReadExact(stream, n) ==
    LET got == IF Len(stream) < n THEN Len(stream) ELSE n
    IN  [buf |-> SubSeq(stream, 1, got) \o Repeat(0, n - got),
         rest |-> SubSeq(stream, got + 1, Len(stream))]

\* Peer::handle_connection, were a handshake for another protocol dropped.
PeerHandleStrict(cfg, local_id, remote, stream, wfail) ==
    LET plen == ReadExact(stream, 1)
        protocol == ReadExact(plen.rest, plen.buf[1])
        reserved == ReadExact(protocol.rest, 8)
        info_hash == ReadExact(reserved.rest, 20)
    IN  IF protocol.buf # Txt.bittorrent \/ info_hash.buf # cfg.info_hash
        THEN [ret |-> "ok", sends |-> <<>>, writes |-> <<>>]
        ELSE [ret |-> IF wfail THEN "err" ELSE "ok",
              sends |-> <<remote>>,
              writes |-> <<HandshakeBytes([reserved |-> Repeat(0, 8),
                                           info_hash |-> info_hash.buf,
                                           peer_id |-> local_id])>>]

\* Peer::handle_connection
PeerHandle(cfg, local_id, remote, stream, wfail) ==
    LET plen == ReadExact(stream, 1)
        protocol == ReadExact(plen.rest, plen.buf[1])
        reserved == ReadExact(protocol.rest, 8)
        info_hash == ReadExact(reserved.rest, 20)
        remote_id == ReadExact(info_hash.rest, 20)
    IN  IF info_hash.buf # cfg.info_hash
        THEN [ret |-> "ok", sends |-> <<>>, writes |-> <<>>]
        ELSE [ret |-> IF wfail THEN "err" ELSE "ok",
              sends |-> <<remote>>,
              writes |-> <<HandshakeBytes([reserved |-> Repeat(0, 8),
                                           info_hash |-> info_hash.buf,
                                           peer_id |-> local_id])>>]

----------------------------------------------------------------------------
(* The process: the two listener threads and the channel they send on      *)

\* The number of connections the two listeners accept between them.
MaxConns == 2

\* Info hashes: twenty '1's, twenty '2's, twenty zero bytes.
Ones == Repeat(Ord("1"), 20)

Twos == Repeat(Ord("2"), 20)

Zeros == Repeat(0, 20)

\* A Config: Config::load's defaults for the ports, an info hash and a way
\* of choosing the advertised host.
Config(info_hash, peer_host) ==
    [info_hash |-> info_hash, host |-> Str(<<"t","r","a","c","k","e","r",".","e","x","a","m","p","l","e">>), peer_host |-> peer_host,
     server_port |-> 3000, peer_port |-> 16384,
     expected_ip |-> IpV4(192, 168, 7, 160)]

PeerHosts ==
    [INFER |-> [kind |-> "INFER"], HOST |-> [kind |-> "HOST"],
     IP |-> [kind |-> "IP", ip |-> IpV4(10, 0, 0, 5)]]

Configs ==
    {Config(h, PeerHosts[k]) : h \in {Ones, Zeros}, k \in DOMAIN PeerHosts}

Pids == {7, 4242, 2147483647}

\* The ways the process is started: a configuration, the process id the system
\* gave it, and whether it was built with overflow checks.
Starts ==
    {[config |-> Config(Ones, PeerHosts.INFER), pid |-> 4242, debug |-> TRUE],
     [config |-> Config(Ones, PeerHosts.INFER), pid |-> 7, debug |-> FALSE],
     [config |-> Config(Ones, PeerHosts.HOST), pid |-> 4242, debug |-> FALSE],
     [config |-> Config(Ones, PeerHosts.IP), pid |-> 7, debug |-> TRUE],
     [config |-> Config(Zeros, PeerHosts.INFER), pid |-> 7, debug |-> TRUE],
     [config |-> Config(Zeros, PeerHosts.HOST), pid |-> 2147483647, debug |-> FALSE]}

\* The addresses connections come from, and the address they are accepted on.
Remotes ==
    {SocketAddr(IpV4(192, 168, 7, 160), 50000), SocketAddr(IpV4(10, 1, 2, 3), 6881)}

Locals ==
    {SocketAddr(IpV4(127, 0, 0, 1), 3000)}

\* How writes to an accepted stream go: all succeed, the first fails, all fail.
WriteFaults == {"none", "first", "all"}

\* An announce request line for a query string.
RequestLine(query) ==
    Txt.get \o query \o Str(<<" ","H","T","T","P","/","1",".","1">>) \o Txt.crlf

\* The query strings clients send: the info hash plain or percent-escaped,
\* of the right or of the wrong length, and the other keys present, absent,
\* well-formed or not.
InfoHashTexts ==
    {Ones, Twos, Str(<<"1","1","1","1","1","1","1","1","1","1","1","1","1","1","1","1","1","1","1">>), Concat([i \in 1..20 |-> Str(<<"%","3","1">>)]),
     Concat([i \in 1..20 |-> Str(<<"%","0","0">>)])}

RequestTails ==
    <<Str(<<"&","p","e","e","r","_","i","d","=","m","a","g","i","c","n","u","m","b","e","r","1","2","3","4","5","6","7","8","9","&","p","o","r","t","=","2","5","5","6","5","&","u","p","l","o","a","d","e","d","=","4","&","d","o","w","n","l","o","a","d","e","d","=","5","&","l","e","f","t","=","6">>),
      Str(<<"&","p","e","e","r","_","i","d","=","m","a","g","i","c","n","u","m","b","e","r","1","2","3","4","5","6","7","8","9","&","p","o","r","t","=","2","5","5","6","5","&","u","p","l","o","a","d","e","d","=","4","&","d","o","w","n","l","o","a","d","e","d","=","5","&","l","e","f","t","=","6","&","c","o","m","p","a","c","t","=","1","&","e","v","e","n","t","=","s","t","a","r","t","e","d","&","n","u","m","w","a","n","t","=","5">>),
      Str(<<"&","p","e","e","r","_","i","d","=","m","a","g","i","c","n","u","m","b","e","r","1","2","3","4","5","6","7","8","9","&","p","o","r","t","=","2","5","5","6","5","&","u","p","l","o","a","d","e","d","=","4","&","d","o","w","n","l","o","a","d","e","d","=","5">>),
      Str(<<"&","p","e","e","r","_","i","d","=","m","a","g","i","c","n","u","m","b","e","r","1","2","3","4","5","6","7","8","9","&","p","o","r","t","=","6","5","5","3","6","&","u","p","l","o","a","d","e","d","=","4","&","d","o","w","n","l","o","a","d","e","d","=","5","&","l","e","f","t","=","6">>),
      Str(<<"&","p","e","e","r","_","i","d","=","m","a","g","i","c","n","u","m","b","e","r","1","2","3","4","5","6","7","8","9","&","p","o","r","t","=","+","8","0","&","u","p","l","o","a","d","e","d","=","4","&","d","o","w","n","l","o","a","d","e","d","=","5","&","l","e","f","t","=","6","&","n","u","m","w","a","n","t","=","m","a","n","y">>),
      Str(<<"&","p","e","e","r","_","i","d","=","m","a","g","i","c","n","u","m","b","e","r","1","2","3","4","5","6","7","8","9","&","p","o","r","t","=","2","5","5","6","5","&","u","p","l","o","a","d","e","d","=","4","&","d","o","w","n","l","o","a","d","e","d","=","5","&","l","e","f","t","=","6","&","i","p","=","%","z","z">>)>>

Queries ==
    {Str(<<"i","n","f","o","_","h","a","s","h","=">>) \o h \o RequestTails[1] : h \in InfoHashTexts}
    \cup {Str(<<"i","n","f","o","_","h","a","s","h","=">>) \o Ones \o RequestTails[i] : i \in 2..Len(RequestTails)}
    \cup {Str(<<"i","n","f","o","_","h","a","s","h","=">>) \o Twos \o RequestTails[2]}

\* A request longer than the read buffer: its first BUF_SIZE bytes come in one
\* read and the rest in the next.
LongRequest ==
    LET line == RequestLine(Str(<<"i","n","f","o","_","h","a","s","h","=">>) \o Ones \o Str(<<"&","p","a","d","=">>) \o Repeat(Ord("x"), BUF_SIZE)
                               \o RequestTails[1])
    IN  <<SubSeq(line, 1, BUF_SIZE), SubSeq(line, BUF_SIZE + 1, Len(line))>>

\* What the reads of a tracker connection return: a request line in one read
\* or in two, other requests (another path, another method, another protocol
\* token, no space), bytes that are not UTF-8, nothing at all.
ServerInputs ==
    {<<RequestLine(q)>> : q \in Queries}
    \cup {LongRequest,
          <<Str(<<"G","E","T"," ","/"," ","H","T","T","P","/","1",".","1">>) \o Txt.crlf \o Txt.crlf>>,
          <<Txt.get \o Str(<<"i","n","f","o","_","h","a","s","h","=">>) \o Ones>>,
          <<Txt.get \o Str(<<"i","n","f","o","_","h","a","s","h","=">>) \o Ones \o RequestTails[1] \o Str(<<" ","H","T","T","P","/","2",".","0">>) \o Txt.crlf>>,
          <<Str(<<"P","O","S","T"," ","/","a","n","n","o","u","n","c","e","?","i","n","f","o","_","h","a","s","h","=">>) \o Ones \o RequestTails[1] \o Str(<<" ","H","T","T","P","/","1",".","1">>) \o Txt.crlf>>,
          <<Txt.get \o Str(<<" ","H","T","T","P","/","1",".","1">>) \o Txt.crlf>>,
          <<Txt.get \o <<255>> \o Str(<<" ","H","T","T","P","/","1",".","1">>) \o Txt.crlf>>,
          <<>>}

\* The bytes of a peer connection: a handshake with its length byte, protocol
\* name, reserved bytes, info hash and peer id, cut short by some bytes.
PeerStream(pstr, reserved, info_hash, id, cut) ==
    LET all == <<Len(pstr)>> \o pstr \o reserved \o info_hash \o id
    IN  SubSeq(all, 1, Len(all) - cut)

Cuts == {0, 1, 20, 21, 40, 48}

PeerInputs ==
    {PeerStream(Txt.bittorrent, Repeat(0, 8), Ones, Repeat(2, 20), cut) : cut \in Cuts}
    \cup {PeerStream(Txt.bittorrent, Repeat(0, 8), h, Repeat(2, 20), 0) : h \in {Twos, Zeros}}
    \cup {PeerStream(Txt.bittorrent, Repeat(0, 8), Twos, Repeat(2, 20), 21),
          PeerStream(Str(<<"a","b","c">>), Repeat(1, 8), Ones, Repeat(2, 20), 0),
          PeerStream(<<>>, Repeat(0, 8), Ones, Repeat(2, 20), 0),
          PeerStream(Txt.bittorrent, Repeat(0, 8), Ones, Repeat(3, 20), 0)}

\* No connection handled yet.
NoConn ==
    [listener |-> "none", fault |-> "none", from |-> <<>>, to |-> <<>>,
     input |-> <<>>, ret |-> "none", request |-> <<>>, sends |-> <<>>,
     writes |-> <<>>]

NetInit ==
    /\ \E s \in Starts :
          /\ config = s.config
          /\ process_id = s.pid
          /\ debug_build = s.debug
    /\ server_thread = "start"
    /\ peer_thread = "unspawned"
    /\ chan = <<>>
    /\ served = 0
    /\ last = NoConn
    /\ sent = <<>>
    /\ main_thread = "running"
    /\ received = <<>>
    /\ launches = <<>>
    /\ notifiers = 0

\* Server::listen up to its loop: a failed bind ends the thread before the
\* peer thread is spawned.
ServerBind ==
    /\ server_thread = "start"
    /\ \E bound \in BOOLEAN :
          /\ server_thread' = IF bound THEN "listening" ELSE "dead"
          /\ peer_thread' = IF bound THEN "start" ELSE peer_thread
    /\ UNCHANGED <<config, process_id, debug_build, chan, served, last, sent, mainVars,
                   codecVars, requestVars, metaVars>>

\* Peer::listen up to its loop; the thread unwraps the result of listen.
PeerBind ==
    /\ peer_thread = "start"
    /\ \E bound \in BOOLEAN : peer_thread' = IF bound THEN "listening" ELSE "dead"
    /\ UNCHANGED <<config, process_id, debug_build, server_thread, chan, served, last,
                   sent, mainVars,
                   codecVars, requestVars, metaVars>>

\* What Server::handle_connection does, tabulated once: for each input, and
\* for each configuration, process, build, pair of addresses and fate of its
\* write.  (f @@ <<>> is f; it makes TLC keep the values, not the formula.)
ServerOutcomes ==
    [i \in ServerInputs |->
        [c \in Configs, p \in Pids, b \in BOOLEAN, l \in Locals, r \in Remotes,
         w \in BOOLEAN |-> ServerHandle(c, p, l, r, i, w, b)] @@ <<>>] @@ <<>>

\* What Peer::handle_connection does, likewise; the peer id is the one
\* Server::listen computed when it built the Peer.
PeerOutcomes ==
    [i \in PeerInputs |->
        [c \in Configs, p \in Pids, r \in Remotes, w \in BOOLEAN |->
            PeerHandle(c, peer_id(p), r, i, w)] @@ <<>>] @@ <<>>

\* On the tracker, listener.incoming() yields an Err, or an address lookup on
\* the accepted stream fails: `?` returns the error from listen.
ServerAcceptError ==
    /\ server_thread = "listening"
    /\ served < MaxConns
    /\ \E fault \in {"accept", "lookup"} :
          last' = [NoConn EXCEPT !.listener = "server", !.fault = fault]
    /\ server_thread' = "dead"
    /\ served' = served + 1
    /\ UNCHANGED <<config, process_id, debug_build, peer_thread, chan, sent, mainVars,
                   codecVars, requestVars, metaVars>>

\* One turn of the loop of Server::listen on an accepted stream:
\* handle_connection, and the status line written for Ok(false) and for Err.
ServerServe ==
    /\ server_thread = "listening"
    /\ served < MaxConns
    /\ \E local \in Locals, remote \in Remotes, reads \in ServerInputs,
          wf \in WriteFaults :
          \E h \in {ServerOutcomes[reads][config, process_id, debug_build, local,
                                          remote, wf # "none"]} :
          LET status == CASE h.ret = "false" -> <<Txt.bad_request \o Txt.crlf \o Txt.crlf>>
                          [] h.ret = "err" -> <<Txt.server_error \o Txt.crlf \o Txt.crlf>>
                          [] OTHER -> <<>>
              status_fails == \/ h.ret = "false" /\ wf # "none"
                              \/ h.ret = "err" /\ wf = "all"
          IN  /\ server_thread' = IF h.ret = "panic" \/ status_fails
                                  THEN "dead" ELSE "listening"
              /\ chan' = chan \o h.sends
              /\ sent' = sent \o [i \in 1..Len(h.sends) |->
                                    [by |-> "server", addr |-> h.sends[i]]]
              /\ last' = [listener |-> "server", fault |-> wf, from |-> remote,
                          to |-> local, input |-> reads, ret |-> h.ret,
                          request |-> h.request, sends |-> h.sends,
                          writes |-> h.writes \o status]
    /\ served' = served + 1
    /\ UNCHANGED <<config, process_id, debug_build, peer_thread, mainVars, codecVars, requestVars, metaVars>>

\* The tracker listener accepts a connection that sends nothing and stays
\* open: the read in handle_connection never returns, and the thread, which
\* handles its connections one after the other, accepts no more.
ServerHang ==
    /\ server_thread = "listening"
    /\ served < MaxConns
    /\ server_thread' = "blocked"
    /\ served' = served + 1
    /\ last' = [NoConn EXCEPT !.listener = "server"]
    /\ UNCHANGED <<config, process_id, debug_build, peer_thread, chan, sent, mainVars,
                   codecVars, requestVars, metaVars>>

\* The same on the peer listener: read_exact never returns.
PeerHang ==
    /\ peer_thread = "listening"
    /\ served < MaxConns
    /\ peer_thread' = "blocked"
    /\ served' = served + 1
    /\ last' = [NoConn EXCEPT !.listener = "peer"]
    /\ UNCHANGED <<config, process_id, debug_build, server_thread, chan, sent, mainVars,
                   codecVars, requestVars, metaVars>>

\* listener.incoming() yields an Err on the peer listener: logged, next turn.
PeerAcceptError ==
    /\ peer_thread = "listening"
    /\ served < MaxConns
    /\ served' = served + 1
    /\ last' = [NoConn EXCEPT !.listener = "peer", !.fault = "accept"]
    /\ UNCHANGED <<config, process_id, debug_build, server_thread, peer_thread, chan,
                   sent, mainVars,
                   codecVars, requestVars, metaVars>>

\* An address lookup on the stream the peer listener accepted fails: `?`
\* returns the error from listen, which the thread unwraps.
PeerLookupError ==
    /\ peer_thread = "listening"
    /\ served < MaxConns
    /\ peer_thread' = "dead"
    /\ served' = served + 1
    /\ last' = [NoConn EXCEPT !.listener = "peer", !.fault = "lookup"]
    /\ UNCHANGED <<config, process_id, debug_build, server_thread, chan, sent, mainVars,
                   codecVars, requestVars, metaVars>>

\* The loop of Peer::listen, were it run by the thread of the tracker
\* listener, in turn with the tracker's connections.
PeerServeInTurn ==
    /\ peer_thread = "listening"
    /\ server_thread # "blocked"
    /\ served < MaxConns
    /\ \E local \in Locals, remote \in Remotes, stream \in PeerInputs,
          wf \in {"none", "all"} :
          \E h \in {PeerOutcomes[stream][config, process_id, remote, wf # "none"]} :
              /\ chan' = chan \o h.sends
              /\ sent' = sent \o [i \in 1..Len(h.sends) |->
                                    [by |-> "peer", addr |-> h.sends[i]]]
              /\ last' = [listener |-> "peer", fault |-> wf, from |-> remote,
                          to |-> local, input |-> stream, ret |-> h.ret,
                          request |-> <<>>, sends |-> h.sends,
                          writes |-> h.writes]
    /\ served' = served + 1
    /\ UNCHANGED <<config, process_id, debug_build, server_thread, peer_thread,
                   mainVars, codecVars, requestVars, metaVars>>

\* One turn of the loop of Peer::listen on an accepted stream:
\* handle_connection, whose Err is logged.
PeerServe ==
    /\ peer_thread = "listening"
    /\ served < MaxConns
    /\ \E local \in Locals, remote \in Remotes, stream \in PeerInputs,
          wf \in {"none", "all"} :
          \E h \in {PeerOutcomes[stream][config, process_id, remote, wf # "none"]} :
              /\ chan' = chan \o h.sends
              /\ sent' = sent \o [i \in 1..Len(h.sends) |->
                                    [by |-> "peer", addr |-> h.sends[i]]]
              /\ last' = [listener |-> "peer", fault |-> wf, from |-> remote,
                          to |-> local, input |-> stream, ret |-> h.ret,
                          request |-> <<>>, sends |-> h.sends,
                          writes |-> h.writes]
    /\ served' = served + 1
    /\ UNCHANGED <<config, process_id, debug_build, server_thread, peer_thread,
                   mainVars, codecVars, requestVars, metaVars>>

\* The loop of main, were the notifier launched for every address.
ReceiveAlwaysNotify ==
    /\ main_thread = "running"
    /\ chan # <<>>
    /\ chan' = Tail(chan)
    /\ received' = Append(received, Head(chan))
    /\ \E launched \in BOOLEAN :
          /\ launches' = Append(launches, [ip |-> Head(chan).ip, ok |-> launched])
          /\ notifiers' = IF launched THEN notifiers + 1 ELSE notifiers
    /\ UNCHANGED <<config, process_id, debug_build, server_thread, peer_thread, served,
                   last, sent, main_thread, codecVars, requestVars, metaVars>>

\* The loop of main, were it to wait for the notifier it launched before it
\* takes the next address.
ReceiveAfterWait ==
    /\ main_thread = "running"
    /\ chan # <<>>
    /\ notifiers = 0
    /\ chan' = Tail(chan)
    /\ received' = Append(received, Head(chan))
    /\ IF Head(chan).ip # config.expected_ip
       THEN \E launched \in BOOLEAN :
               /\ launches' = Append(launches, [ip |-> Head(chan).ip, ok |-> launched])
               /\ notifiers' = IF launched THEN notifiers + 1 ELSE notifiers
       ELSE UNCHANGED <<launches, notifiers>>
    /\ UNCHANGED <<config, process_id, debug_build, server_thread, peer_thread, served,
                   last, sent, main_thread, codecVars, requestVars, metaVars>>

\* The loop of main, were the channel to hand over the newest address first.
ReceiveNewest ==
    /\ main_thread = "running"
    /\ chan # <<>>
    /\ chan' = SubSeq(chan, 1, Len(chan) - 1)
    /\ received' = Append(received, chan[Len(chan)])
    /\ IF chan[Len(chan)].ip # config.expected_ip
       THEN \E launched \in BOOLEAN :
               /\ launches' = Append(launches, [ip |-> chan[Len(chan)].ip,
                                                 ok |-> launched])
               /\ notifiers' = IF launched THEN notifiers + 1 ELSE notifiers
       ELSE UNCHANGED <<launches, notifiers>>
    /\ UNCHANGED <<config, process_id, debug_build, server_thread, peer_thread, served,
                   last, sent, main_thread, codecVars, requestVars, metaVars>>

\* One turn of the loop of main over the receiver: the next address is taken
\* off the channel; when it is not the expected one the notifier is launched,
\* and a thread is spawned to wait for it.  A launch that fails is logged.
Receive ==
    /\ main_thread = "running"
    /\ chan # <<>>
    /\ chan' = Tail(chan)
    /\ received' = Append(received, Head(chan))
    /\ IF Head(chan).ip # config.expected_ip
       THEN \E launched \in BOOLEAN :
               /\ launches' = Append(launches, [ip |-> Head(chan).ip, ok |-> launched])
               /\ notifiers' = IF launched THEN notifiers + 1 ELSE notifiers
       ELSE UNCHANGED <<launches, notifiers>>
    /\ UNCHANGED <<config, process_id, debug_build, server_thread, peer_thread, served,
                   last, sent, main_thread, codecVars, requestVars, metaVars>>

\* A notifier process exits: wait() returns in the thread spawned for it.
NotifierExit ==
    /\ notifiers > 0
    /\ notifiers' = notifiers - 1
    /\ UNCHANGED <<config, process_id, debug_build, server_thread, peer_thread, chan,
                   served, last, sent, main_thread, received, launches, codecVars, requestVars,
                   metaVars>>

\* The loop of main ends once the channel is empty and every Sender is
\* dropped: the one the Server owns goes with the tracker thread, its clone
\* in the Peer with the peer thread.  main returns and the process exits.
MainExit ==
    /\ main_thread = "running"
    /\ chan = <<>>
    /\ server_thread = "dead"
    /\ peer_thread \in {"unspawned", "dead"}
    /\ main_thread' = "exited"
    /\ UNCHANGED <<config, process_id, debug_build, server_thread, peer_thread, chan,
                   served, last, sent, received, launches, notifiers, codecVars, requestVars,
                   metaVars>>

NetNext ==
    \/ ServerBind
    \/ PeerBind
    \/ ServerAcceptError
    \/ ServerServe
    \/ PeerAcceptError
    \/ PeerLookupError
    \/ PeerServe
    \/ ServerHang
    \/ PeerHang
    \/ Receive
    \/ NotifierExit
    \/ MainExit

----------------------------------------------------------------------------
(* TrackerRequest::try_from on query strings built key by key              *)

\* How many times a query string is changed after it is built.
MaxEdits == 2

\* The QueryString of test_trackerrequest_from: the six required keys.
MinimalQuery ==
    QsInsert(QsInsert(QsInsert(QsInsert(QsInsert(QsInsert(<<>>,
        Key.info_hash, Repeat(Chr.a + 1, 20)),
        Key.peer_id, Repeat(Chr.a, 20)),
        Key.port, Str(<<"8","0","8","0">>)),
        Key.uploaded, Str(<<"2","5","0","0","0">>)),
        Key.downloaded, Str(<<"3","0","0","0">>)),
        Key.left, Str(<<"2","0","0">>))

\* The <<key, value>> pairs a query string may be given, the values being of
\* the right and of the wrong length, in and out of range, signed, not a
\* number, not UTF-8, empty.
Settings ==
    ({Key.info_hash, Key.peer_id}
        \X {Repeat(Chr.a + 1, 20), Repeat(Chr.a + 1, 19), Repeat(Chr.a + 1, 21)})
    \cup ({Key.port} \X {Str(<<"8","0","8","0">>), Str(<<"6","5","5","3","5">>), Str(<<"6","5","5","3","6">>), Str(<<"+","8","0">>), Str(<<"8","0","a">>), <<>>})
    \cup ({Key.uploaded, Key.downloaded, Key.left, Key.numwant}
            \X {Str(<<"2","5","0","0","0">>), Str(<<"1","8","4","4","6","7","4","4","0","7","3","7","0","9","5","5","1","6","1","5">>), Str(<<"1","8","4","4","6","7","4","4","0","7","3","7","0","9","5","5","1","6","1","6">>), Str(<<"-","1">>), <<>>})
    \cup ({Key.event} \X {Str(<<"s","t","a","r","t","e","d">>), Str(<<"s","t","o","p","p","e","d">>), Str(<<"c","o","m","p","l","e","t","e","d">>), Str(<<"p","a","u","s","e","d">>), <<255>>, <<>>})
    \cup ({Key.compact, Key.no_peer_id} \X {Str(<<"1">>), Str(<<"0">>)})
    \cup ({Key.ip, Key.trackerid, Str(<<"t","e","s","t">>)} \X {Str(<<"1","2","7",".","0",".","0",".","1">>)})
    \cup {<<Str(<<"w"," ","w">>), Str(<<" "," ">>)>>, <<Str(<<"a","=","b">>), Str(<<"c","&","d","%">>)>>, <<Str(<<"t","e","s","t">>), <<5>>>>, <<Str(<<"t","e","s","t">>), <<5, Chr.a>>>>,
          <<Str(<<"t","e","s","t">>), <<15, 16, 255>>>>}

\* The greatest number of pairs of a query string that is encoded.
MaxEncoded == 2

\* tracker_request.done: whether try_from has been called.  The query string
\* starts as that of test_trackerrequest_from or as an empty HashMap.
RequestInit ==
    /\ query_string \in {MinimalQuery, <<>>}
    /\ edits = 0
    /\ tracker_request = [done |-> FALSE, res |-> <<>>]
    /\ round_trip = <<>>

\* No query string is being worked on.
RequestIdle ==
    /\ query_string = MinimalQuery
    /\ edits = 0
    /\ tracker_request = [done |-> FALSE, res |-> <<>>]
    /\ round_trip = <<>>

\* HashMap::insert on the map of the QueryString.
QueryInsert ==
    /\ ~tracker_request.done
    /\ round_trip = <<>>
    /\ edits < MaxEdits
    /\ \E kv \in Settings : query_string' = QsInsert(query_string, kv[1], kv[2])
    /\ edits' = edits + 1
    /\ UNCHANGED <<tracker_request, round_trip, codecVars, netVars, metaVars>>

\* QueryString::remove: the key leaves the map.
QueryRemove ==
    /\ ~tracker_request.done
    /\ round_trip = <<>>
    /\ edits < MaxEdits
    /\ \E key \in DOMAIN query_string :
          query_string' = [k \in DOMAIN query_string \ {key} |-> query_string[k]]
    /\ edits' = edits + 1
    /\ UNCHANGED <<tracker_request, round_trip, codecVars, netVars, metaVars>>

\* TrackerRequest::try_from(query_string)
TryFrom ==
    /\ ~tracker_request.done
    /\ round_trip = <<>>
    /\ tracker_request' = [done |-> TRUE, res |-> TrackerRequestFrom(query_string)]
    /\ UNCHANGED <<query_string, edits, round_trip, codecVars, netVars, metaVars>>

\* decode(encode(query_string)): the pairs leave the HashMap in some order,
\* and the bytes encode returns, all of them ASCII, are read back as a &str.
\* encode takes the QueryString by value, as try_from does: a query string
\* goes to one of them, and is not changed afterwards.
EncodeDecode ==
    /\ ~tracker_request.done
    /\ round_trip = <<>>
    /\ Cardinality(DOMAIN query_string) <= MaxEncoded
    /\ \E order \in Orders(DOMAIN query_string), checks \in BOOLEAN :
          round_trip' = <<[of |-> query_string,
                           encoded |-> qs_encode(query_string, order),
                           decoded |-> qs_decode(qs_encode(query_string, order), checks)]>>
    /\ UNCHANGED <<query_string, edits, tracker_request, codecVars, netVars, metaVars>>

RequestNext ==
    \/ QueryInsert
    \/ QueryRemove
    \/ TryFrom
    \/ EncodeDecode

----------------------------------------------------------------------------
(* metainfo: File, FileInfo, Info and MetaInfo to and from bencode::Data   *)
(* An Option is <<>> (None) or <<x>> (Some(x)); so is a Result<_, ()>.     *)

\* The keys of the metainfo dictionaries.
MetaKey ==
    [length |-> Str(<<"l","e","n","g","t","h">>), md5sum |-> Str(<<"m","d","5","s","u","m">>), path |-> Str(<<"p","a","t","h">>), name |-> Str(<<"n","a","m","e">>),
     files |-> Str(<<"f","i","l","e","s">>), piece_length |-> Str(<<"p","i","e","c","e"," ","l","e","n","g","t","h">>), pieces |-> Str(<<"p","i","e","c","e","s">>),
     private |-> Str(<<"p","r","i","v","a","t","e">>), info |-> Str(<<"i","n","f","o">>), announce |-> Str(<<"a","n","n","o","u","n","c","e">>),
     announce_list |-> Str(<<"a","n","n","o","u","n","c","e","-","l","i","s","t">>), creation_date |-> Str(<<"c","r","e","a","t","i","o","n"," ","d","a","t","e">>),
     comment |-> Str(<<"c","o","m","m","e","n","t">>), created_by |-> Str(<<"c","r","e","a","t","e","d"," ","b","y">>), encoding |-> Str(<<"e","n","c","o","d","i","n","g">>)]

\* Dictionary::remove: what is left of the dictionary (DictGet is what it
\* returns).
DictRemove(d, k) ==
    SelectSeq(d, LAMBDA e : e[1] # k)

\* Dictionary::append (BTreeMap::append): every entry of other goes into d,
\* replacing the entry of d with the same key.
RECURSIVE DictAppend(_, _)
DictAppend(d, other) ==
    IF other = <<>> THEN d
    ELSE DictAppend(DictInsert(d, other[1][1], other[1][2]), Tail(other))

\* dict.insert_str(key, value) when the Option holds a value; insert_str is
\* Dictionary::insert with a &str key.
InsertOpt(d, k, opt) ==
    IF opt = <<>> THEN d ELSE DictInsert(d, k, opt[1])

\* Whether a removed entry is Some(Data::<t>(_)).
IsSome(opt, t) ==
    opt # <<>> /\ opt[1].t = t

\* An optional entry holding Data::<t>: None, or Some(Data::<t>(_)).
IsOpt(opt, t) ==
    opt = <<>> \/ opt[1].t = t

\* The md5sum entry: None, or Some(Data::Bytes(b)) with b.try_into() a
\* [u8; 32].
IsMd5(opt) ==
    opt = <<>> \/ (opt[1].t = "Bytes" /\ Len(opt[1].b) = 32)

\* File into Data, were md5sum left out of the dictionary.
FileIntoNoMd5(f) ==
    Dict(DictInsert(DictInsert(DictNew, MetaKey.length, UInt(f.length)),
                    MetaKey.path,
                    List([i \in 1..Len(f.path) |-> Bytes(f.path[i])])))

\* impl Into<Data> for File
FileInto(f) ==
    Dict(InsertOpt(
            DictInsert(DictInsert(DictNew, MetaKey.length, UInt(f.length)),
                       MetaKey.path,
                       List([i \in 1..Len(f.path) |-> Bytes(f.path[i])])),
            MetaKey.md5sum,
            [i \in 1..Len(f.md5sum) |-> Bytes(f.md5sum[i])]))

\* impl TryFrom<Data> for File
FileTryFrom(v) ==
    IF /\ v.t = "Dict"
       /\ IsSome(DictGet(v.d, MetaKey.length), "UInt")
       /\ IsMd5(DictGet(v.d, MetaKey.md5sum))
       /\ IsSome(DictGet(v.d, MetaKey.path), "List")
       /\ \A i \in 1..Len(DictGet(v.d, MetaKey.path)[1].l) :
             DictGet(v.d, MetaKey.path)[1].l[i].t = "Bytes"
    THEN <<[length |-> DictGet(v.d, MetaKey.length)[1].u,
            md5sum |-> [i \in 1..Len(DictGet(v.d, MetaKey.md5sum)) |->
                           DictGet(v.d, MetaKey.md5sum)[i].b],
            path |-> [i \in 1..Len(DictGet(v.d, MetaKey.path)[1].l) |->
                         DictGet(v.d, MetaKey.path)[1].l[i].b]]>>
    ELSE <<>>

\* impl Into<Data> for FileInfo
FileInfoInto(fi) ==
    IF fi.kind = "Single"
    THEN Dict(DictInsert(
                InsertOpt(DictInsert(DictNew, MetaKey.length, UInt(fi.length)),
                          MetaKey.md5sum,
                          [i \in 1..Len(fi.md5sum) |-> Bytes(fi.md5sum[i])]),
                MetaKey.name, Bytes(fi.name)))
    ELSE Dict(DictInsert(DictInsert(DictNew, MetaKey.name, Bytes(fi.name)),
                         MetaKey.files,
                         List([i \in 1..Len(fi.files) |-> FileInto(fi.files[i])])))

\* impl TryFrom<Data> for FileInfo
FileInfoTryFrom(v) ==
    IF ~(v.t = "Dict" /\ IsSome(DictGet(v.d, MetaKey.name), "Bytes")) THEN <<>>
    ELSE IF IsSome(DictGet(v.d, MetaKey.files), "List")
    THEN IF \A i \in 1..Len(DictGet(v.d, MetaKey.files)[1].l) :
                FileTryFrom(DictGet(v.d, MetaKey.files)[1].l[i]) # <<>>
         THEN <<[kind |-> "Multi",
                 name |-> DictGet(v.d, MetaKey.name)[1].b,
                 files |-> [i \in 1..Len(DictGet(v.d, MetaKey.files)[1].l) |->
                               FileTryFrom(DictGet(v.d, MetaKey.files)[1].l[i])[1]]]>>
         ELSE <<>>
    ELSE IF /\ IsSome(DictGet(v.d, MetaKey.length), "UInt")
            /\ IsMd5(DictGet(v.d, MetaKey.md5sum))
    THEN <<[kind |-> "Single",
            length |-> DictGet(v.d, MetaKey.length)[1].u,
            md5sum |-> [i \in 1..Len(DictGet(v.d, MetaKey.md5sum)) |->
                           DictGet(v.d, MetaKey.md5sum)[i].b],
            name |-> DictGet(v.d, MetaKey.name)[1].b]>>
    ELSE <<>>

\* impl Into<Data> for Info; private is written as UInt(private as u64).
InfoInto(info) ==
    Dict(DictAppend(
            InsertOpt(
                DictInsert(DictInsert(DictNew, MetaKey.piece_length,
                                      UInt(info.piece_length)),
                           MetaKey.pieces, Bytes(info.pieces)),
                MetaKey.private,
                [i \in 1..Len(info.private) |->
                    UInt(IF info.private[i] THEN U64(1) ELSE U64Zero)]),
            FileInfoInto(info.file_info).d))

\* impl TryFrom<Data> for Info: the three keys are removed and what is left
\* of the dictionary goes to FileInfo::try_from.
InfoTryFrom(v) ==
    IF /\ v.t = "Dict"
       /\ IsSome(DictGet(v.d, MetaKey.piece_length), "UInt")
       /\ IsSome(DictGet(v.d, MetaKey.pieces), "Bytes")
       /\ IsOpt(DictGet(v.d, MetaKey.private), "UInt")
       /\ FileInfoTryFrom(Dict(DictRemove(DictRemove(DictRemove(v.d,
                MetaKey.piece_length), MetaKey.pieces), MetaKey.private))) # <<>>
    THEN <<[piece_length |-> DictGet(v.d, MetaKey.piece_length)[1].u,
            pieces |-> DictGet(v.d, MetaKey.pieces)[1].b,
            private |-> [i \in 1..Len(DictGet(v.d, MetaKey.private)) |->
                            DictGet(v.d, MetaKey.private)[i].u # U64Zero],
            file_info |-> FileInfoTryFrom(Dict(DictRemove(DictRemove(DictRemove(v.d,
                MetaKey.piece_length), MetaKey.pieces), MetaKey.private)))[1]]>>
    ELSE <<>>

\* impl Into<Data> for MetaInfo
MetaInfoInto(mi) ==
    Dict(InsertOpt(InsertOpt(InsertOpt(InsertOpt(InsertOpt(
            DictInsert(DictInsert(DictNew, MetaKey.info, InfoInto(mi.info)),
                       MetaKey.announce, Bytes(mi.announce)),
            MetaKey.announce_list,
            [i \in 1..Len(mi.announce_list) |-> Bytes(mi.announce_list[i])]),
            MetaKey.creation_date,
            [i \in 1..Len(mi.creation_date) |-> UInt(mi.creation_date[i])]),
            MetaKey.comment,
            [i \in 1..Len(mi.comment) |-> Bytes(mi.comment[i])]),
            MetaKey.created_by,
            [i \in 1..Len(mi.created_by) |-> Bytes(mi.created_by[i])]),
            MetaKey.encoding,
            [i \in 1..Len(mi.encoding) |-> Bytes(mi.encoding[i])]))

\* impl TryFrom<Data> for MetaInfo
MetaInfoTryFrom(v) ==
    IF /\ v.t = "Dict"
       /\ DictGet(v.d, MetaKey.info) # <<>>
       /\ InfoTryFrom(DictGet(v.d, MetaKey.info)[1]) # <<>>
       /\ IsSome(DictGet(v.d, MetaKey.announce), "Bytes")
       /\ IsOpt(DictGet(v.d, MetaKey.announce_list), "Bytes")
       /\ IsOpt(DictGet(v.d, MetaKey.comment), "Bytes")
       /\ IsOpt(DictGet(v.d, MetaKey.created_by), "Bytes")
       /\ IsOpt(DictGet(v.d, MetaKey.creation_date), "UInt")
       /\ IsOpt(DictGet(v.d, MetaKey.encoding), "Bytes")
    THEN <<[info |-> InfoTryFrom(DictGet(v.d, MetaKey.info)[1])[1],
            announce |-> DictGet(v.d, MetaKey.announce)[1].b,
            announce_list |-> [i \in 1..Len(DictGet(v.d, MetaKey.announce_list)) |->
                                  DictGet(v.d, MetaKey.announce_list)[i].b],
            creation_date |-> [i \in 1..Len(DictGet(v.d, MetaKey.creation_date)) |->
                                  DictGet(v.d, MetaKey.creation_date)[i].u],
            comment |-> [i \in 1..Len(DictGet(v.d, MetaKey.comment)) |->
                            DictGet(v.d, MetaKey.comment)[i].b],
            created_by |-> [i \in 1..Len(DictGet(v.d, MetaKey.created_by)) |->
                               DictGet(v.d, MetaKey.created_by)[i].b],
            encoding |-> [i \in 1..Len(DictGet(v.d, MetaKey.encoding)) |->
                             DictGet(v.d, MetaKey.encoding)[i].b]]>>
    ELSE <<>>

----------------------------------------------------------------------------
(* Metainfo values at work: a value is turned into Data, the dictionary    *)
(* may be changed, and the value is reconstructed from it.                 *)

\* How many times a dictionary is changed before it is read back.
MaxDamage == 1

\* File values: with and without md5sum, with an empty path.
Files ==
    {[length |-> U64(5), md5sum |-> <<>>, path |-> <<Str(<<"a">>), Str(<<"b",".","t","x","t">>)>>],
     [length |-> U64Max, md5sum |-> <<Repeat(Ord("f"), 32)>>, path |-> <<>>]}

\* FileInfo values: Single with and without md5sum, Multi with no file, with
\* one and with two.
FileInfos ==
    {[kind |-> "Single", length |-> U64(5), md5sum |-> <<>>, name |-> Str(<<"c","a","t","s",".","j","p","e","g">>)],
     [kind |-> "Single", length |-> U64Zero, md5sum |-> <<Repeat(Ord("0"), 32)>>,
      name |-> <<>>]}
    \cup {[kind |-> "Multi", name |-> Str(<<"d","i","r">>), files |-> fs] :
            fs \in {<<>>} \cup {<<f>> : f \in Files}
                   \cup {<<f, g>> : f \in Files, g \in Files}}

\* Info values: private absent, Some(true) and Some(false), over a Single and
\* over a Multi of one file.
Infos ==
    {[piece_length |-> U64(16384), pieces |-> Repeat(1, 20), private |-> p,
      file_info |-> fi] :
        p \in {<<>>, <<TRUE>>, <<FALSE>>},
        fi \in {f \in FileInfos : f.kind = "Multi" => Len(f.files) = 1}}

\* MetaInfo values: every optional field absent, every optional field present.
MetaInfos ==
    {[info |-> i, announce |-> Str(<<"h","t","t","p",":","/","/","t","r","a","c","k","e","r",".","e","x","a","m","p","l","e","/","a","n","n","o","u","n","c","e">>),
      announce_list |-> <<>>, creation_date |-> <<>>, comment |-> <<>>,
      created_by |-> <<>>, encoding |-> <<>>] : i \in {j \in Infos : j.private = <<>>}}
    \cup {[info |-> i, announce |-> <<>>,
           announce_list |-> <<Str(<<"1","2","3","4","5">>)>>, creation_date |-> <<U64Zero>>,
           comment |-> <<Str(<<"n","o"," ","c","o","m","m","e","n","t">>)>>, created_by |-> <<Str(<<"m","e">>)>>,
           encoding |-> <<Str(<<"u","t","f","-","8">>)>>] : i \in {j \in Infos : j.private # <<>>}}

\* Values of every variant of Data, to put where the conversions expect
\* another one: byte strings of 0 and of 32 bytes, integers, lists, a
\* dictionary.
Replacements ==
    {Bytes(<<>>), Bytes(Repeat(Ord("0"), 32)), UInt(U64(7)), SInt(I64(TRUE, U64(1))),
     List(<<>>), List(<<Bytes(<<>>)>>), List(<<UInt(U64Zero)>>), Dict(DictNew)}

MetaInit ==
    /\ meta_value \in
          {[entity |-> "File", v |-> f] : f \in Files}
          \cup {[entity |-> "FileInfo", v |-> fi] : fi \in FileInfos}
          \cup {[entity |-> "Info", v |-> i] : i \in Infos}
          \cup {[entity |-> "MetaInfo", v |-> mi] : mi \in MetaInfos}
    /\ meta_data = NoData
    /\ meta_edits = 0
    /\ meta_result = <<>>
    /\ meta_stage = "value"

\* No metainfo value is being converted.
MetaIdle ==
    /\ meta_value = [entity |-> "File", v |-> [length |-> U64(5), md5sum |-> <<>>,
                                                path |-> <<>>]]
    /\ meta_data = NoData
    /\ meta_edits = 0
    /\ meta_result = <<>>
    /\ meta_stage = "value"

\* value.into(): the Data of the value.
IntoData ==
    /\ meta_stage = "value"
    /\ meta_data' = CASE meta_value.entity = "File" -> FileInto(meta_value.v)
                      [] meta_value.entity = "FileInfo" -> FileInfoInto(meta_value.v)
                      [] meta_value.entity = "Info" -> InfoInto(meta_value.v)
                      [] meta_value.entity = "MetaInfo" -> MetaInfoInto(meta_value.v)
    /\ meta_stage' = "data"
    /\ UNCHANGED <<meta_value, meta_edits, meta_result, codecVars, netVars, requestVars>>

\* The Data is changed before it is read back (as a torrent file written by
\* another program would differ): a key is removed, or a key is given
\* another value, or the whole is not a dictionary.
Damage ==
    /\ meta_stage = "data"
    /\ meta_edits < MaxDamage
    /\ meta_data.t = "Dict"
    /\ \/ \E k \in {MetaKey[f] : f \in DOMAIN MetaKey} :
             \/ meta_data' = Dict(DictRemove(meta_data.d, k))
             \/ \E r \in Replacements :
                   meta_data' = Dict(DictInsert(meta_data.d, k, r))
       \/ \E r \in Replacements : r.t # "Dict" /\ meta_data' = r
    /\ meta_edits' = meta_edits + 1
    /\ UNCHANGED <<meta_value, meta_result, meta_stage, codecVars, netVars, requestVars>>

\* T::try_from(data) for the entity the Data came from.
TryFromData ==
    /\ meta_stage = "data"
    /\ meta_result' = CASE meta_value.entity = "File" -> FileTryFrom(meta_data)
                        [] meta_value.entity = "FileInfo" -> FileInfoTryFrom(meta_data)
                        [] meta_value.entity = "Info" -> InfoTryFrom(meta_data)
                        [] meta_value.entity = "MetaInfo" -> MetaInfoTryFrom(meta_data)
    /\ meta_stage' = "done"
    /\ UNCHANGED <<meta_value, meta_data, meta_edits, codecVars, netVars, requestVars>>

MetaNext ==
    \/ IntoData
    \/ Damage
    \/ TryFromData

----------------------------------------------------------------------------
(* Specifications                                                           *)

vars == <<codecVars, netVars, requestVars, metaVars>>

\* The process as it is while the codec is exercised: started, no thread yet.
NetIdle ==
    /\ config = Config(Ones, PeerHosts.INFER)
    /\ process_id = 4242
    /\ debug_build = TRUE
    /\ server_thread = "start"
    /\ peer_thread = "unspawned"
    /\ chan = <<>>
    /\ served = 0
    /\ last = NoConn
    /\ sent = <<>>
    /\ main_thread = "running"
    /\ received = <<>>
    /\ launches = <<>>
    /\ notifiers = 0

\* The codec alone.
CodecStart ==
    CodecInit /\ NetIdle /\ RequestIdle /\ MetaIdle

SpecCodec ==
    CodecStart /\ [][CodecNext]_vars

\* The listeners, their handlers and the channel; no value is in the codec.
NetStart ==
    NetInit /\ CodecInit /\ RequestIdle /\ MetaIdle

SpecNet ==
    NetStart /\ [][NetNext]_vars

\* TrackerRequest::try_from alone.
RequestStart ==
    RequestInit /\ CodecInit /\ NetIdle /\ MetaIdle

SpecRequest ==
    RequestStart /\ [][RequestNext]_vars

\* The metainfo conversions alone.
MetaStart ==
    MetaInit /\ CodecInit /\ NetIdle /\ RequestIdle

SpecMeta ==
    MetaStart /\ [][MetaNext]_vars

----------------------------------------------------------------------------
(* Claims about the two handlers, checked under SpecNet                     *)

\* The texts the claims name.
Expected ==
    [protocol |-> Str(<<"B","i","t","T","o","r","r","e","n","t"," ","p","r","o","t","o","c","o","l">>),
     status |-> Str(<<"H","T","T","P","/","1",".","1"," ","2","0","0"," ","O","K">>),
     content_length |-> Str(<<"C","o","n","t","e","n","t","-","L","e","n","g","t","h",":"," ">>),
     content_type |-> Str(<<"C","o","n","t","e","n","t","-","T","y","p","e",":"," ","t","e","x","t","/","p","l","a","i","n">>),
     failure_body |-> Str(<<"d","1","4",":","f","a","i","l","u","r","e"," ","r","e","a","s","o","n","1","8",":","I","n","v","a","l","i","d"," ","i","n","f","o"," ","h","a","s","h",".","e">>),
     failure_reason |-> Str(<<"f","a","i","l","u","r","e"," ","r","e","a","s","o","n">>),
     invalid |-> Str(<<"I","n","v","a","l","i","d"," ","i","n","f","o"," ","h","a","s","h",".">>),
     warning_message |-> Str(<<"w","a","r","n","i","n","g"," ","m","e","s","s","a","g","e">>),
     your_ip |-> Str(<<"Y","o","u","r"," ","I","P"," ","i","s"," ">>),
     your_ip_160 |-> Str(<<"Y","o","u","r"," ","I","P"," ","i","s"," ","1","9","2",".","1","6","8",".","7",".","1","6","0">>),
     peers |-> Str(<<"p","e","e","r","s">>),
     peer_fields |-> {Str(<<"p","e","e","r"," ","i","d">>), Str(<<"i","p">>), Str(<<"p","o","r","t">>)},
     compact |-> Str(<<"c","o","m","p","a","c","t">>)]

\* peer_id() for each process id, tabulated once.
PeerIds ==
    [p \in Pids |-> peer_id(p)] @@ <<>>

\* The latest turn of a listener's loop handed a connection to its handler.
Handled(listener) ==
    last.listener = listener /\ last.ret # "none"

\* A stream that holds a whole handshake: the length byte, that many bytes of
\* protocol string, 8 reserved bytes, the info hash and the peer id.
CompleteHandshake(stream) ==
    Len(stream) >= 1 /\ Len(stream) >= stream[1] + 49

\* The info hash field of a whole handshake.
ReceivedInfoHash(stream) ==
    SubSeq(stream, stream[1] + 10, stream[1] + 29)

\* The handshake of the BitTorrent protocol with nothing reserved.
PlainHandshake(info_hash, id) ==
    <<19>> \o Expected.protocol \o <<0, 0, 0, 0, 0, 0, 0, 0>> \o info_hash \o id

\* C8: when a peer connection delivers a whole handshake, then if its info
\* hash is the configured one the handler sends the remote address on the
\* channel once and hands the stream one buffer, the handshake made of the
\* byte 19, "BitTorrent protocol", 8 zero bytes, the info hash received and
\* the local peer id; if the info hash is another one it sends nothing and
\* writes nothing.
C8_HandshakeAnswered ==
    (Handled("peer") /\ CompleteHandshake(last.input)) =>
        IF ReceivedInfoHash(last.input) = config.info_hash
        THEN /\ last.sends = <<last.from>>
             /\ last.writes = <<PlainHandshake(ReceivedInfoHash(last.input),
                                               PeerIds[process_id])>>
        ELSE /\ last.sends = <<>>
             /\ last.writes = <<>>

\* C8 witness: a whole handshake with the configured info hash was handled,
\* its sender was published and one buffer of 68 bytes was written.
C8_Witness ==
    /\ Handled("peer")
    /\ CompleteHandshake(last.input)
    /\ last.input[1] = 19
    /\ ReceivedInfoHash(last.input) = config.info_hash
    /\ last.sends = <<last.from>>
    /\ Len(last.writes) = 1
    /\ Len(last.writes[1]) = 68

\* Where the head of an HTTP response ends: the index of its first blank
\* line, 0 if there is none.
HeadEnd(resp) ==
    LET at == {i \in 1..(Len(resp) - 3) :
                  /\ resp[i] = 13 /\ resp[i + 1] = 10
                  /\ resp[i + 2] = 13 /\ resp[i + 3] = 10}
    IN  IF at = {} THEN 0 ELSE CHOOSE i \in at : \A j \in at : i <= j

\* The body of a response: what is between the blank line and the final CRLF.
ResponseBody(resp) ==
    SubSeq(resp, HeadEnd(resp) + 4, Len(resp) - 2)

\* A 200 response: the status line, the length of the body, the content
\* type, a blank line, the body and a CRLF.
Is200(resp) ==
    /\ HeadEnd(resp) > 0
    /\ SubSeq(resp, 1, HeadEnd(resp) - 1) =
          Expected.status \o <<13, 10>> \o Expected.content_length
              \o NatToDec(Len(ResponseBody(resp))) \o <<13, 10>>
              \o Expected.content_type
    /\ SubSeq(resp, Len(resp) - 1, Len(resp)) = <<13, 10>>

\* The buffers Server::handle_connection writes, over all of ServerOutcomes.
Responses ==
    UNION {UNION {{o.writes[k] : k \in 1..Len(o.writes)} :
                     o \in {ServerOutcomes[i][x] : x \in DOMAIN ServerOutcomes[i]}} :
              i \in ServerInputs}

\* The body of each of them as decode_vec reads it, tabulated once.
DecodedBody ==
    [resp \in Responses |-> decode_vec(ResponseBody(resp), TRUE)] @@ <<>>

\* The handler built a TrackerRequest from what it read.
Parsed ==
    Handled("server") /\ last.request # <<>>

\* C9: an announce request that parses and whose info_hash is not the
\* configured one gets a 200 response whose body is the bencoding of the
\* dictionary {"failure reason": "Invalid info hash."}, the only buffer
\* written when the write succeeds, and nothing is sent on the channel for
\* that connection.
C9_InvalidInfoHash ==
    (Parsed /\ last.request[1].info_hash # config.info_hash) =>
        /\ last.sends = <<>>
        /\ Len(last.writes) >= 1
        /\ last.fault = "none" => Len(last.writes) = 1
        /\ Is200(last.writes[1])
        /\ ResponseBody(last.writes[1]) = Expected.failure_body
        /\ DecodedBody[last.writes[1]] =
              [kind |-> "ok",
               val |-> Dict(<<(<<Expected.failure_reason, Bytes(Expected.invalid)>>)>>)]

\* C9 witness: an announce for twenty '2's reached a tracker configured for
\* another info hash and was answered.
C9_Witness ==
    /\ Parsed
    /\ last.request[1].info_hash = Twos
    /\ config.info_hash # Twos
    /\ last.ret = "true"
    /\ Len(last.writes) = 1

\* C10: for an announce request that parses and whose info_hash is the
\* configured one, the remote address is sent on the channel once and the
\* body of the 200 response is a dictionary whose "warning message" is
\* "Your IP is " followed by the IP the connection came from.
C10_ValidInfoHash ==
    (Parsed /\ last.request[1].info_hash = config.info_hash) =>
        /\ last.sends = <<last.from>>
        /\ Len(last.writes) >= 1
        /\ Is200(last.writes[1])
        /\ LET body == DecodedBody[last.writes[1]]
           IN  /\ body.kind = "ok"
               /\ body.val.t = "Dict"
               /\ DictGet(body.val.d, Expected.warning_message) =
                     <<Bytes(Expected.your_ip \o IpDisplay(last.from.ip))>>

\* C10 witness: an announce for the configured info hash came from
\* 192.168.7.160, which was published and told its address.
C10_Witness ==
    /\ Parsed
    /\ last.request[1].info_hash = config.info_hash
    /\ last.from.ip = IpV4(192, 168, 7, 160)
    /\ chan # <<>>
    /\ chan[Len(chan)] = last.from
    /\ last.ret = "true"
    /\ DictGet(DecodedBody[last.writes[1]].val.d, Expected.warning_message) =
          <<Bytes(Expected.your_ip_160)>>

\* The requests among ServerInputs whose query string declares compact: the
\* key is there with a value other than "0".
DeclaredCompact ==
    {reads \in ServerInputs :
        \E path \in {StripPrefix(ReadLoop(reads), Txt.get)} :
            /\ IsUtf8(ReadLoop(reads))
            /\ path # <<>>
            /\ \E query \in {SplitOnce(path[1], Chr.sp)} :
                  /\ query # <<>>
                  /\ \E qs \in {qs_decode(query[1], FALSE)} :
                        /\ qs.kind = "ok"
                        /\ Expected.compact \in DOMAIN qs.v
                        /\ qs.v[Expected.compact] # <<48>>}

\* The address the tracker advertises for the peer, when it is an IPv4
\* address: <<octets>>, and <<>> when a host name is advertised.
AdvertisedV4 ==
    CASE config.peer_host.kind = "INFER" /\ last.to.ip.v = 4 -> <<last.to.ip.repr>>
      [] config.peer_host.kind = "IP" /\ config.peer_host.ip.v = 4 ->
            <<config.peer_host.ip.repr>>
      [] OTHER -> <<>>

\* The "peers" entry of the body of the response, <<>> if there is none.
PeersOf(resp) ==
    \E body \in {decode_vec(ResponseBody(resp), TRUE)} :
        /\ body.kind = "ok"
        /\ body.val.t = "Dict"
        /\ DictGet(body.val.d, Expected.peers) # <<>>

PeersEntry(resp) ==
    DictGet(decode_vec(ResponseBody(resp), TRUE).val.d, Expected.peers)[1]

\* C11: for an announce with the configured info hash, the "peers" of the
\* response is one byte string, 4 IPv4 octets and the port in 2 big-endian
\* bytes, when the query string declared compact and the advertised address
\* is IPv4; in every other case it is a list of dictionaries with the keys
\* "peer id", "ip" and "port".
C11_CompactSelection ==
    (Parsed /\ last.request[1].info_hash = config.info_hash) =>
        /\ PeersOf(last.writes[1])
        /\ IF last.input \in DeclaredCompact /\ AdvertisedV4 # <<>>
           THEN PeersEntry(last.writes[1]) =
                   Bytes(AdvertisedV4[1] \o <<config.peer_port \div 256,
                                              config.peer_port % 256>>)
           ELSE /\ PeersEntry(last.writes[1]).t = "List"
                /\ \A i \in 1..Len(PeersEntry(last.writes[1]).l) :
                      /\ PeersEntry(last.writes[1]).l[i].t = "Dict"
                      /\ DictKeys(PeersEntry(last.writes[1]).l[i].d) =
                            Expected.peer_fields

\* The keys of an announce, as the claims name them.
Field ==
    [info_hash |-> Str(<<"i","n","f","o","_","h","a","s","h">>), peer_id |-> Str(<<"p","e","e","r","_","i","d">>), port |-> Str(<<"p","o","r","t">>),
     uploaded |-> Str(<<"u","p","l","o","a","d","e","d">>), downloaded |-> Str(<<"d","o","w","n","l","o","a","d","e","d">>), left |-> Str(<<"l","e","f","t">>),
     compact |-> Str(<<"c","o","m","p","a","c","t">>), no_peer_id |-> Str(<<"n","o","_","p","e","e","r","_","i","d">>), event |-> Str(<<"e","v","e","n","t">>),
     ip |-> Str(<<"i","p">>), numwant |-> Str(<<"n","u","m","w","a","n","t">>), trackerid |-> Str(<<"t","r","a","c","k","e","r","i","d">>),
     u16_max |-> Str(<<"6","5","5","3","5">>), u16_over |-> Str(<<"6","5","5","3","6">>), test |-> Str(<<"t","e","s","t">>),
     paused |-> Str(<<"p","a","u","s","e","d">>), started |-> Str(<<"s","t","a","r","t","e","d">>), stopped |-> Str(<<"s","t","o","p","p","e","d">>),
     completed |-> Str(<<"c","o","m","p","l","e","t","e","d">>)]

RequiredFields ==
    {Field.info_hash, Field.peer_id, Field.port, Field.uploaded, Field.downloaded,
     Field.left}

OptionalFields ==
    {Field.compact, Field.no_peer_id, Field.event, Field.ip, Field.numwant,
     Field.trackerid}

\* For each request among ServerInputs, the query string it carries as a map
\* from keys to values, percent escapes undone: <<map>>, or <<>> when the
\* request is not GET /announce?<query> followed by a space or the query is
\* not a list of key=value items.
DecodedQuery ==
    [reads \in ServerInputs |->
        LET text == ReadLoop(reads)
            path == StripPrefix(text, Txt.get)
            query == IF path = <<>> THEN <<>> ELSE SplitOnce(path[1], Chr.sp)
            qs == IF query = <<>> THEN [kind |-> "err"]
                  ELSE qs_decode(query[1], FALSE)
        IN  IF IsUtf8(text) /\ qs.kind = "ok" THEN <<qs.v>> ELSE <<>>] @@ <<>>

\* A decimal number no greater than limit: digits, at least one.
IsDecimal(bs, limit) ==
    /\ bs # <<>>
    /\ \A i \in 1..Len(bs) : IsDecDigit(bs[i])
    /\ DecLeq(StripZeros(bs), limit)

\* The six required keys are there and well-formed.
WellFormed(q) ==
    /\ RequiredFields \subseteq DOMAIN q
    /\ Len(q[Field.info_hash]) = 20
    /\ Len(q[Field.peer_id]) = 20
    /\ IsDecimal(q[Field.port], Field.u16_max)
    /\ IsDecimal(q[Field.uploaded], U64MaxDec)
    /\ IsDecimal(q[Field.downloaded], U64MaxDec)
    /\ IsDecimal(q[Field.left], U64MaxDec)

\* The tracker handled a request whose query string is a map.
Queried ==
    Handled("server") /\ DecodedQuery[last.input] # <<>>

LastQuery ==
    DecodedQuery[last.input][1]

\* C12: a query string that supplies the six required keys and no other is
\* parsed into a TrackerRequest whose port, uploaded, downloaded and left are
\* the decimal values supplied and whose compact, no_peer_id, event, ip,
\* numwant and trackerid are all absent.
C12_MinimalRequest ==
    (Queried /\ DOMAIN LastQuery = RequiredFields /\ WellFormed(LastQuery)) =>
        /\ last.request # <<>>
        /\ NatToDec(last.request[1].port) = StripZeros(LastQuery[Field.port])
        /\ U64ToDec(last.request[1].uploaded) = StripZeros(LastQuery[Field.uploaded])
        /\ U64ToDec(last.request[1].downloaded) = StripZeros(LastQuery[Field.downloaded])
        /\ U64ToDec(last.request[1].left) = StripZeros(LastQuery[Field.left])
        /\ last.request[1].compact = <<>>
        /\ last.request[1].no_peer_id = <<>>
        /\ last.request[1].event = <<>>
        /\ last.request[1].ip = <<>>
        /\ last.request[1].numwant = <<>>
        /\ last.request[1].trackerid = <<>>

----------------------------------------------------------------------------
(* Claims about TrackerRequest::try_from, checked under SpecRequest        *)

\* A number as str::parse takes it: decimal digits, which one '+' may
\* precede, of a value no greater than limit.
IsNumber(bs, limit) ==
    IsDecimal(IF bs # <<>> /\ bs[1] = 43 THEN Tail(bs) ELSE bs, limit)

\* The six required keys are there, the hashes of 20 bytes, the numbers as
\* str::parse takes them; numwant, if there, is such a number too.
Acceptable(q) ==
    /\ RequiredFields \subseteq DOMAIN q
    /\ Len(q[Field.info_hash]) = 20
    /\ Len(q[Field.peer_id]) = 20
    /\ IsNumber(q[Field.port], Field.u16_max)
    /\ IsNumber(q[Field.uploaded], U64MaxDec)
    /\ IsNumber(q[Field.downloaded], U64MaxDec)
    /\ IsNumber(q[Field.left], U64MaxDec)
    /\ Field.numwant \in DOMAIN q => IsNumber(q[Field.numwant], U64MaxDec)

\* C13 as stated: the conversion fails whenever one of info_hash, peer_id,
\* port, uploaded, downloaded, left is missing, info_hash or peer_id is not
\* of 20 bytes, or a numeric field is not a string of decimal digits within
\* the range of its type.
C13_DigitsOnly ==
    tracker_request.done =>
        ((~WellFormed(query_string)
          \/ (Field.numwant \in DOMAIN query_string
              /\ ~IsDecimal(query_string[Field.numwant], U64MaxDec)))
            => tracker_request.res = <<>>)

\* C13, amended: the conversion fails whenever one of the six required keys
\* is missing, info_hash or peer_id is not of 20 bytes, or a numeric field
\* (port, uploaded, downloaded, left, numwant) is not a string of decimal
\* digits, optionally preceded by one '+', of a value within the range of
\* its type (16 bits for port, 64 for the others); it succeeds in every other
\* case, whatever other keys the query string holds.
C13_RequiredKeys ==
    tracker_request.done =>
        (tracker_request.res = <<>> <=> ~Acceptable(query_string))

\* C13 witness: a query string with a key the parser does not know and the
\* port 65536 was refused.
C13_Witness ==
    /\ tracker_request.done
    /\ Field.test \in DOMAIN query_string
    /\ Field.port \in DOMAIN query_string
    /\ query_string[Field.port] = Field.u16_over
    /\ tracker_request.res = <<>>

\* C14: when the event key is absent from the query string, or there with a
\* value other than "started", "stopped" or "completed", the event of the
\* parsed request is REGULAR.
C14_EventDefault ==
    (/\ tracker_request.done
     /\ tracker_request.res # <<>>
     /\ \/ Field.event \notin DOMAIN query_string
        \/ query_string[Field.event] \notin
              {Field.started, Field.stopped, Field.completed})
        => tracker_request.res[1].event = <<"REGULAR">>

----------------------------------------------------------------------------
(* Further claims about the listeners, checked under SpecNet               *)

\* The texts of a request line and of the status line of a refusal.
Http ==
    [protocol |-> Str(<<"H","T","T","P","/","1",".","1">>) \o <<13, 10>>,
     bad_request |-> Str(<<"H","T","T","P","/","1",".","1"," ","4","0","0"," ","B","A","D"," ","R","E","Q","U","E","S","T">>) \o <<13, 10, 13, 10>>]

\* For each request among ServerInputs, whether it is of the form
\* GET /announce?<query> HTTP/1.1 with a query that is a list of key=value
\* items holding what a TrackerRequest needs.
AnnounceForm ==
    [reads \in ServerInputs |->
        LET text == ReadLoop(reads)
            path == StripPrefix(text, Txt.get)
            line == IF path = <<>> THEN <<>> ELSE SplitOnce(path[1], 32)
        IN  /\ line # <<>>
            /\ Len(line[2]) >= Len(Http.protocol)
            /\ SubSeq(line[2], 1, Len(Http.protocol)) = Http.protocol
            /\ DecodedQuery[reads] # <<>>
            /\ Acceptable(DecodedQuery[reads][1])] @@ <<>>

\* C15: a tracker connection whose request is not of the form
\* GET /announce?<query> HTTP/1.1 with a query that parses into a
\* TrackerRequest is answered with "HTTP/1.1 400 BAD REQUEST" and a blank
\* line, nothing else, and nothing is sent on the channel.
C15_MalformedRejected ==
    (Handled("server") /\ last.fault = "none" /\ ~AnnounceForm[last.input]) =>
        /\ last.writes = <<Http.bad_request>>
        /\ last.sends = <<>>

\* C16: when the stream of a peer connection ends before a whole handshake
\* was read, no address is sent on the channel, no handshake is written back,
\* and the peer listener keeps running.
C16_ShortHandshakeDropped ==
    (Handled("peer") /\ last.fault = "none" /\ ~CompleteHandshake(last.input)) =>
        /\ last.sends = <<>>
        /\ last.writes = <<>>
        /\ peer_thread = "listening"

\* C17: an I/O failure on one connection (a failed accept, a failed address
\* lookup on the accepted stream, a failed write of the response or of the
\* status line of an error) never ends the accept loop of the listener that
\* took the connection.
C17_ListenersSurviveFaults ==
    /\ (last.listener = "server" /\ last.fault # "none" /\ last.ret # "panic")
          => server_thread = "listening"
    /\ (last.listener = "peer" /\ last.fault # "none")
          => peer_thread = "listening"

\* C18: when the tracker listener or the peer listener fails to bind its port
\* at startup, the process stops serving: the step in which one listener's
\* bind fails leaves the other listener not accepting connections.
C18_BindFailureStopsAll ==
    [][/\ (peer_thread = "start" /\ peer_thread' = "dead")
             => server_thread' # "listening"
       /\ (server_thread = "start" /\ server_thread' = "dead")
             => peer_thread' # "listening"]_vars

\* The addresses sent on the channel so far, in the order of the sends.
SentAddrs ==
    [i \in 1..Len(sent) |-> sent[i].addr]

\* The places in the sends so far of those made by one listener.
SentBy(listener) ==
    {i \in 1..Len(sent) : sent[i].by = listener}

\* C19: every address sent on the channel is received exactly once, and the
\* addresses one producer sent are received in the order it sent them: the
\* addresses main has taken, followed by those still in the channel, are the
\* addresses sent, send by send, so two sends of one listener are never taken
\* in the other order.
C19_ChannelOrder ==
    /\ received \o chan = SentAddrs
    /\ \A listener \in {"server", "peer"} :
          \A i, j \in SentBy(listener) :
              (i < j /\ j <= Len(received)) =>
                  /\ received[i] = sent[i].addr
                  /\ received[j] = sent[j].addr

\* One listener has sent two different addresses and main has taken both.
C19_Witness ==
    /\ Len(received) = 2
    /\ chan = <<>>
    /\ sent[1].by = sent[2].by
    /\ received[1] # received[2]

\* C20: the loop of main never waits for a notifier it launched: whenever an
\* address is in the channel main can take it, however many notifiers are
\* still running, whether or not they ever exit.
C20_ConsumerNeverWaits ==
    chan # <<>> => (main_thread = "running" /\ ENABLED Receive)

\* Two notifiers are running at once: the second address was taken, and its
\* notifier launched, while the first notifier had not exited.
C20_Witness ==
    /\ notifiers = 2
    /\ Len(received) = 2

----------------------------------------------------------------------------
(* Claims about the metainfo conversions, checked under SpecMeta           *)

\* The fields that are Options, by the name of their key in MetaKey.
OptionFields ==
    {"md5sum", "private", "announce_list", "creation_date", "comment",
     "created_by", "encoding"}

\* A value was converted and read back from the Data it became, unchanged.
ReadBack ==
    meta_stage = "done" /\ meta_edits = 0

\* C21: a File, FileInfo, Info or MetaInfo turned into a dictionary and
\* reconstructed from that dictionary comes back, successfully, equal to the
\* original; an optional field that is absent has no key in the dictionary
\* (and one that is present has its key); and the Info read back is a Multi
\* exactly when the original was.
C21_MetainfoRoundTrip ==
    /\ ReadBack => meta_result = <<meta_value.v>>
    /\ (meta_stage # "value" /\ meta_edits = 0) =>
          /\ meta_data.t = "Dict"
          /\ \A f \in OptionFields \cap DOMAIN meta_value.v :
                meta_value.v[f] = <<>> <=> MetaKey[f] \notin DictKeys(meta_data.d)
    /\ (ReadBack /\ meta_value.entity = "Info") =>
          /\ meta_result # <<>>
          /\ meta_result[1].file_info.kind = "Multi"
                <=> meta_value.v.file_info.kind = "Multi"

\* A MetaInfo over a Multi whose file has no md5sum was read back.
C21_Witness ==
    /\ ReadBack
    /\ meta_value.entity = "MetaInfo"
    /\ meta_value.v.info.file_info.kind = "Multi"
    /\ meta_value.v.info.file_info.files[1].md5sum = <<>>
    /\ meta_value.v.comment # <<>>
    /\ meta_result = <<meta_value.v>>

\* The variant of Data each key holds, by the name of the key in MetaKey.
VariantOf ==
    [length |-> "UInt", md5sum |-> "Bytes", path |-> "List", name |-> "Bytes",
     files |-> "List", piece_length |-> "UInt", pieces |-> "Bytes",
     private |-> "UInt", info |-> "Dict", announce |-> "Bytes",
     announce_list |-> "Bytes", creation_date |-> "UInt", comment |-> "Bytes",
     created_by |-> "Bytes", encoding |-> "Bytes"]

\* The keys each entity reads.
RecognizedKeys ==
    [File |-> {"length", "md5sum", "path"},
     FileInfo |-> {"name", "files", "length", "md5sum"},
     Info |-> {"piece_length", "pieces", "private", "name", "files", "length",
               "md5sum"},
     MetaInfo |-> {"info", "announce", "announce_list", "creation_date", "comment",
                   "created_by", "encoding"}]

\* The keys an entity cannot do without: a FileInfo (alone or in an Info)
\* needs its name, and files or else length.
RequiredKeys(entity, d) ==
    CASE entity = "File" -> {"length", "path"}
      [] entity = "FileInfo" ->
            {"name"} \cup (IF MetaKey.files \in DictKeys(d) THEN {} ELSE {"length"})
      [] entity = "Info" ->
            {"piece_length", "pieces", "name"}
                \cup (IF MetaKey.files \in DictKeys(d) THEN {} ELSE {"length"})
      [] entity = "MetaInfo" -> {"info", "announce"}

\* A dictionary that misses a required key, or holds under a recognized key a
\* value of another variant, or holds an md5sum that is not 32 bytes long.
Defective(entity, d) ==
    \/ \E f \in RequiredKeys(entity, d) : MetaKey[f] \notin DictKeys(d)
    \/ \E f \in RecognizedKeys[entity] :
          /\ MetaKey[f] \in DictKeys(d)
          /\ DictGet(d, MetaKey[f])[1].t # VariantOf[f]
    \/ /\ "md5sum" \in RecognizedKeys[entity]
       /\ IsSome(DictGet(d, MetaKey.md5sum), "Bytes")
       /\ Len(DictGet(d, MetaKey.md5sum)[1].b) # 32

\* C22: reconstructing a File, FileInfo, Info or MetaInfo fails whenever the
\* dictionary misses a required key, or holds a value of the wrong variant
\* under a recognized key, or holds an md5sum that is not exactly 32 bytes.
C22_ReconstructionFails ==
    (meta_stage = "done" /\ meta_data.t = "Dict"
        /\ Defective(meta_value.entity, meta_data.d))
        => meta_result = <<>>

----------------------------------------------------------------------------
(* A further claim about the codec, checked under SpecCodec                *)

\* The same value with every integer in the other variant where it fits:
\* UInt(n) as Int(n) for n up to i64::MAX, Int(n) as UInt(n) for n >= 0.
RECURSIVE OtherVariant(_)
OtherVariant(v) ==
    CASE v.t = "UInt" ->
            IF I64TryFromU64(v.u) = <<>> THEN v ELSE SInt(I64TryFromU64(v.u))
      [] v.t = "Int" -> IF v.i.neg THEN v ELSE UInt(v.i.mag)
      [] v.t = "List" -> List([n \in 1..Len(v.l) |-> OtherVariant(v.l[n])])
      [] v.t = "Dict" ->
            Dict([n \in 1..Len(v.d) |-> <<v.d[n][1], OtherVariant(v.d[n][2])>>])
      [] OTHER -> v

\* Values to compare a value with: itself in the other integer variants, the
\* leaves, and the list and the dictionary of one leaf.
ComparedWith(v) ==
    {OtherVariant(v)} \cup Leaves \cup {OtherVariant(l) : l \in Leaves}
        \cup {List(<<l>>) : l \in Leaves}
        \cup {Dict(<<(<<k, l>>)>>) : k \in Keys, l \in Leaves}

\* C23: two values without End that are equal (UInt(n) and Int(n) are, and
\* so are dictionaries of the same content) encode to the same bytes.
C23_EqualValuesEncodeEqual ==
    (value # NoData /\ ~HasEnd(value)) =>
        \A w \in ComparedWith(value) :
            DataEq(value, w) => encode(value) = encode(w)

\* A dictionary or list holding an integer was encoded, and the same value
\* with the integer in the other variant is another value equal to it.
C23_Witness ==
    /\ stage = "encoded"
    /\ value.t \in {"List", "Dict"}
    /\ OtherVariant(value) # value
    /\ DataEq(value, OtherVariant(value))
    /\ data = encode(OtherVariant(value))

----------------------------------------------------------------------------
(* Further claims about the handshake and the channel, under SpecNet       *)

\* The decimal digits of a natural number, most significant first.
RECURSIVE DecimalDigits(_)
DecimalDigits(n) ==
    IF n < 10 THEN <<48 + n>> ELSE Append(DecimalDigits(n \div 10), 48 + (n % 10))

\* The decimal digits of each process id, tabulated once.
PidDigits ==
    [p \in Pids |-> DecimalDigits(p)] @@ <<>>

\* C24: peer_id() is 20 bytes: "-PA", the version bytes 0, 0, 1, 0, then the
\* decimal digits of the process id, repeated and cut to fill the 13 bytes
\* left; every handshake the process writes carries this same peer id.
C24_PeerId ==
    /\ Len(PeerIds[process_id]) = 20
    /\ SubSeq(PeerIds[process_id], 1, 7) = <<45, 80, 65, 0, 0, 1, 0>>
    /\ \A i \in 1..13 :
          PeerIds[process_id][7 + i] =
              PidDigits[process_id][((i - 1) % Len(PidDigits[process_id])) + 1]
    /\ (Handled("peer") /\ last.writes # <<>>) =>
          /\ Len(last.writes[1]) = 68
          /\ SubSeq(last.writes[1], 49, 68) = PeerIds[process_id]

\* A process whose id has ten digits has written a handshake on each of two
\* connections.
C24_Witness ==
    /\ process_id = 2147483647
    /\ Handled("peer")
    /\ last.writes # <<>>
    /\ served = 2
    /\ Len(sent) = 2
    /\ sent[1].by = "peer"

----------------------------------------------------------------------------
(* A claim about the length prefix of a byte string, under SpecCodec       *)

\* C25: decode ends with a value or with a parse error, whatever the input;
\* a length prefix whose decimal value is above 2^64 - 1 gives a parse error
\* (the length is not reduced modulo 2^64 and the program does not abort).
C25_LengthPrefix ==
    stage = "decoded" =>
        /\ result.kind \in {"ok", "err"}
        /\ (origin.kind = "len" /\ ~DecLeq(StripZeros(origin.digits), U64MaxDec))
              => result.kind = "err"

\* C26: the two listeners go on independently: while one is blocked on a
\* connection that never sends or never finishes, the other still accepts and
\* handles its connections; only the blocked listener accepts no more.
C26_ListenerIndependence ==
    /\ (server_thread = "blocked" /\ peer_thread = "listening" /\ served < MaxConns)
          => (ENABLED PeerServe /\ ~ENABLED ServerServe)
    /\ (peer_thread = "blocked" /\ server_thread = "listening" /\ served < MaxConns)
          => (ENABLED ServerServe /\ ~ENABLED PeerServe)

\* The tracker listener is blocked, and the peer listener has since answered
\* a handshake and sent the address on the channel.
C26_Witness ==
    /\ server_thread = "blocked"
    /\ Handled("peer")
    /\ last.writes # <<>>
    /\ last.sends # <<>>
    /\ peer_thread = "listening"

\* The addresses main has taken whose IP is not the expected one, in order.
Unexpected ==
    SelectSeq(received, LAMBDA a : a.ip # config.expected_ip)

\* C27: for each address taken from the channel the notifier is launched
\* once when the IP of the address is not the expected IP, and not at all
\* when it is; a launch that fails is only logged: no notifier runs for it,
\* and main goes on to the next address.
C27_NotifierDispatch ==
    /\ Len(launches) = Len(Unexpected)
    /\ \A i \in 1..Len(launches) : launches[i].ip = Unexpected[i].ip
    /\ notifiers <= Cardinality({i \in 1..Len(launches) : launches[i].ok})
    /\ (launches # <<>> /\ chan # <<>>) =>
          (main_thread = "running" /\ ENABLED Receive)

\* A first launch failed, main took the next address all the same and had no
\* notifier to launch for it, as its IP was the expected one.
C27_Witness ==
    /\ Len(received) = 2
    /\ Len(launches) = 1
    /\ ~launches[1].ok
    /\ received[1].ip # config.expected_ip
    /\ received[2].ip = config.expected_ip
    /\ notifiers = 0

\* The whole handshakes among PeerInputs that carry the info hash h.
HandshakesFor(h) ==
    {i \in PeerInputs : CompleteHandshake(i) /\ ReceivedInfoHash(i) = h}

\* C28: what the peer listener does with a whole handshake depends only on
\* the info hash in it: any other whole handshake with the same info hash,
\* whatever its protocol-name length, protocol name, reserved bytes and peer
\* id, from the same remote gives the same result, the same address on the
\* channel and the same bytes written; a handshake with the configured info
\* hash is answered whatever protocol it names.
C28_OnlyInfoHashDecides ==
    (Handled("peer") /\ CompleteHandshake(last.input)) =>
        /\ \A i \in HandshakesFor(ReceivedInfoHash(last.input)) :
              /\ PeerOutcomes[i][config, process_id, last.from, last.fault # "none"].ret
                    = last.ret
              /\ PeerOutcomes[i][config, process_id, last.from, last.fault # "none"].sends
                    = last.sends
              /\ PeerOutcomes[i][config, process_id, last.from, last.fault # "none"].writes
                    = last.writes
        /\ ReceivedInfoHash(last.input) = config.info_hash =>
              /\ last.sends = <<last.from>>
              /\ last.writes = <<PlainHandshake(config.info_hash, PeerIds[process_id])>>

\* C28 witness: a handshake that names the protocol "abc" and sets every
\* reserved byte to 1 carried the configured info hash; its sender was
\* published and answered like three other handshakes in PeerInputs.
C28_Witness ==
    /\ Handled("peer")
    /\ CompleteHandshake(last.input)
    /\ last.input[1] = 3
    /\ SubSeq(last.input, 2, 4) = Str(<<"a","b","c">>)
    /\ SubSeq(last.input, 5, 12) = Repeat(1, 8)
    /\ Cardinality(HandshakesFor(ReceivedInfoHash(last.input))) = 4
    /\ last.sends = <<last.from>>
    /\ last.writes = <<PlainHandshake(config.info_hash, PeerIds[process_id])>>

----------------------------------------------------------------------------
(* Claims about the query string's percent-encoding, under SpecRequest     *)

\* C29: url_decode(url_encode(b)) returns b for every byte string b, and
\* decode(encode(m)) succeeds with a mapping equal to m for every query
\* string m, the empty one and those with bytes below 0x10 included.
C29_QueryRoundTrip ==
    round_trip # <<>> =>
        /\ \A k \in DOMAIN round_trip[1].of :
              /\ url_decode(url_encode(k), TRUE) = [kind |-> "ok", v |-> k]
              /\ url_decode(url_encode(round_trip[1].of[k]), TRUE) =
                    [kind |-> "ok", v |-> round_trip[1].of[k]]
        /\ round_trip[1].decoded = [kind |-> "ok", v |-> round_trip[1].of]

----------------------------------------------------------------------------
(* A claim about the escapes of an announce request, under SpecNet         *)

\* 0-9, a-f, A-F
IsHexDigit(b) ==
    \/ IsDecDigit(b)
    \/ b >= Chr.a /\ b <= Chr.a + 5
    \/ b >= Chr.A /\ b <= Chr.A + 5

\* Reading s from the left, some '%' is not followed by two hexadecimal
\* digits.
RECURSIVE BadEscape(_)
BadEscape(s) ==
    LET i == IndexOf(s, Chr.pct)
    IN  /\ i # 0
        /\ \/ i + 2 > Len(s)
           \/ ~IsHexDigit(s[i + 1])
           \/ ~IsHexDigit(s[i + 2])
           \/ BadEscape(SubSeq(s, i + 3, Len(s)))

\* C30: a '%' that is not followed by two hexadecimal digits (0-9, a-f, A-F)
\* makes url_decode return an error, so that an announce request with such
\* an escape is refused as a bad request: nothing is parsed from it, nothing
\* is sent on the channel, and the 8-bit arithmetic that combines the two
\* digits does not overflow (the listener does not panic).
C30_EscapeValidation ==
    \A q \in Queries :
        (Handled("server") /\ last.fault = "none" /\ last.input = <<RequestLine(q)>>
            /\ BadEscape(q)) =>
            /\ url_decode(q, debug_build).kind = "err"
            /\ last.ret = "false"
            /\ last.request = <<>>
            /\ last.sends = <<>>

====
